---- MODULE Spec2Model ----
(***************************************************************************)
(* Open Efficiency Index: the two scoring pipelines                        *)
(* (scripts/data_pipeline.py, scripts/real_data_pipeline.py), the SQLite   *)
(* tables they write, and the query layer that reads them                  *)
(* (api/efficiency_api.py, api/index.py, api/stats.py, api/categories.py,  *)
(* search.py, export_static_json.py).                                      *)
(*                                                                         *)
(* Numbers.  A pandas cell holding a number is a pair <<n, d>>: the exact  *)
(* rational n/d in lowest terms with d > 0.  NaN is <<0, 0>> and +inf is   *)
(* <<1, 0>>, so that x/0 and 0/0 come out as numpy produces them.  The     *)
(* arithmetic is exact; a float's rounding error is not modelled.          *)
(* A cell of a numeric column that holds text is <<0, -1>>.                *)
(* A DataFrame is [cols, rows, raised]: the set of column names, the       *)
(* sequence of rows (functions from cols to cells) and the exception the   *)
(* computation that produced it raised ("none" when it returned).          *)
(***************************************************************************)
EXTENDS Integers, Sequences, FiniteSets, TLC

\* ------------------------------------------------------------------ bounds
\* longest raw frame whose rows are drawn in every order
MaxRows == 3
\* largest population of a category drawn as a sorted frame
MaxPop == 11
\* rows produced by generate_sample_data (the code asks for 100)
SampleCount == 3
\* pipeline runs in one behaviour
MaxRuns == 2
\* steps whose I/O fails in one behaviour
MaxFaults == 1
\* the efficiencies the absolute-threshold scores are applied to: 0..MaxBand steps
MaxBand == 24
\* the models of a compare request, besides the requests of five and of six
MaxCompare == 3

\* ------------------------------------------------------- float arithmetic
NaN == <<0, 0>>
Inf == <<1, 0>>
TextCell == <<0, -1>>

Abs(n) == IF n < 0 THEN -n ELSE n

RECURSIVE GCD(_, _)
GCD(a, b) == IF b = 0 THEN a ELSE GCD(b, a % b)

\* the float n/d: lowest terms, d > 0; n/0 is +inf (n > 0) or NaN (n = 0)
Rat(n, d) ==
    IF d = 0 THEN (IF n = 0 THEN NaN ELSE Inf)
    ELSE LET s == IF d < 0 THEN -1 ELSE 1
             g == GCD(Abs(n), Abs(d))
         IN  <<(s * n) \div g, (s * d) \div g>>

IsNaN(x) == x = NaN
IsInf(x) == x = Inf

Num(k) == <<k, 1>>

\* x * y, x / y, x + y, x - y on floats; NaN propagates, inf * 0 = NaN
Mul(x, y) == IF IsNaN(x) \/ IsNaN(y) THEN NaN ELSE Rat(x[1] * y[1], x[2] * y[2])
Div(x, y) == IF IsNaN(x) \/ IsNaN(y) THEN NaN ELSE Rat(x[1] * y[2], x[2] * y[1])
Add(x, y) ==
    IF IsNaN(x) \/ IsNaN(y) THEN NaN
    ELSE IF IsInf(x) \/ IsInf(y) THEN Inf
    ELSE Rat(x[1] * y[2] + y[1] * x[2], x[2] * y[2])
Sub(x, y) ==
    IF IsNaN(x) \/ IsNaN(y) THEN NaN
    ELSE IF IsInf(x) THEN (IF IsInf(y) THEN NaN ELSE Inf)
    ELSE Rat(x[1] * y[2] - y[1] * x[2], x[2] * y[2])

\* x < y, x <= y, x >= y on floats: every comparison with NaN is False
Lt(x, y) == ~IsNaN(x) /\ ~IsNaN(y) /\ x[1] * y[2] < y[1] * x[2]
Le(x, y) == ~IsNaN(x) /\ ~IsNaN(y) /\ (x = y \/ x[1] * y[2] < y[1] * x[2])
Ge(x, y) == Le(y, x)

Pow10(k) == IF k = 0 THEN 1 ELSE 10

\* Series.round(decimals) for decimals in {0, 1}: numpy rounds half to even
Round(x, decimals) ==
    IF x[2] = 0 THEN x
    ELSE LET s == x[1] * Pow10(decimals)
             q == s \div x[2]
             r == s % x[2]
             up == 2 * r > x[2] \/ (2 * r = x[2] /\ q % 2 = 1)
         IN  Rat(IF up THEN q + 1 ELSE q, Pow10(decimals))

\* Series.clip(lo, hi) and max(a, b) as Python evaluates them
Clip(x, lo, hi) == IF Lt(x, lo) THEN lo ELSE IF Lt(hi, x) THEN hi ELSE x
Max(a, b) == IF Lt(a, b) THEN b ELSE a

\* pd.to_numeric(series, errors='coerce'): text becomes NaN
ToNumeric(v) == IF v = TextCell THEN NaN ELSE v

\* ---------------------------------------------------------------- frames
NaNStr == "NaN"
NaNModel == <<"NaN", 0>>

Frame(cols, rows) == [cols |-> cols, rows |-> rows, raised |-> "none"]
EmptyFrame == Frame({}, <<>>)
Raise(exc) == [cols |-> {}, rows |-> <<>>, raised |-> exc]

\* df[col] = f(row): the column is added or overwritten in every row
SetCol(df, col, F(_)) ==
    [df EXCEPT
        !.cols = @ \cup {col},
        !.rows = [i \in 1..Len(df.rows) |-> (col :> F(df.rows[i])) @@ df.rows[i]] \o <<>>]

\* df[col]: KeyError when the frame has no such column
HasCols(df, cs) == cs \subseteq df.cols

\* df.dropna(subset=cs) on numeric columns
DropNa(df, cs) ==
    IF ~HasCols(df, cs) THEN Raise("KeyError")
    ELSE LET Keep(r) == \A c \in cs : ~IsNaN(r[c])
         IN  [df EXCEPT !.rows = SelectSeq(df.rows, Keep)]

\* ------------------------------------------------------------ categories
Refrigerators == "refrigerators"
ClothesWashers == "clothes_washers"
Dishwashers == "dishwashers"
WaterHeaters == "water_heaters"

\* self.energystar_apis.keys(), in insertion order
energystar_apis == <<Refrigerators, ClothesWashers, Dishwashers, WaterHeaters>>
\* self.appliance_categories.keys(), in insertion order
appliance_categories == <<Refrigerators, Dishwashers, WaterHeaters, ClothesWashers>>
Categories == {Refrigerators, ClothesWashers, Dishwashers, WaterHeaters}

Regions == {"us_average", "california", "texas", "new_york", "florida"}

\* f'annual_cost_{region}' and the three other regional column names
AnnualCostCol(r) ==
    CASE r = "us_average" -> "annual_cost_us_average"
      [] r = "california" -> "annual_cost_california"
      [] r = "texas" -> "annual_cost_texas"
      [] r = "new_york" -> "annual_cost_new_york"
      [] r = "florida" -> "annual_cost_florida"
LifetimeCostCol(r) ==
    CASE r = "us_average" -> "lifetime_cost_us_average"
      [] r = "california" -> "lifetime_cost_california"
      [] r = "texas" -> "lifetime_cost_texas"
      [] r = "new_york" -> "lifetime_cost_new_york"
      [] r = "florida" -> "lifetime_cost_florida"
AnnualCo2Col(r) ==
    CASE r = "us_average" -> "annual_co2_lbs_us_average"
      [] r = "california" -> "annual_co2_lbs_california"
      [] r = "texas" -> "annual_co2_lbs_texas"
      [] r = "new_york" -> "annual_co2_lbs_new_york"
      [] r = "florida" -> "annual_co2_lbs_florida"
LifetimeCo2Col(r) ==
    CASE r = "us_average" -> "lifetime_co2_lbs_us_average"
      [] r = "california" -> "lifetime_co2_lbs_california"
      [] r = "texas" -> "lifetime_co2_lbs_texas"
      [] r = "new_york" -> "lifetime_co2_lbs_new_york"
      [] r = "florida" -> "lifetime_co2_lbs_florida"

RegionalCols ==
    UNION {{AnnualCostCol(r), LifetimeCostCol(r), AnnualCo2Col(r), LifetimeCo2Col(r)} :
            r \in Regions}

\* one pass of `for region, price in ...items()`: the four columns of a region
\* computed from the per-row annual cost and annual CO2; each lifetime column is
\* computed from the annual column just assigned
SetRegion(df, r, Cost(_), Co2(_), Lifetime(_)) ==
    [df EXCEPT
        !.cols = @ \cup {AnnualCostCol(r), LifetimeCostCol(r), AnnualCo2Col(r),
                         LifetimeCo2Col(r)},
        !.rows = [i \in 1..Len(df.rows) |->
                    LET cost == Cost(df.rows[i])
                        co2 == Co2(df.rows[i])
                    IN  (AnnualCostCol(r) :> cost) @@ (LifetimeCostCol(r) :> Lifetime(cost))
                        @@ (AnnualCo2Col(r) :> co2) @@ (LifetimeCo2Col(r) :> Lifetime(co2))
                        @@ df.rows[i]] \o <<>>]

\* ------------------------------------------- RealApplianceDataPipeline
\* the tables of calculate_regional_impact
RealTariff ==
    [elec |-> [r \in Regions |->
                CASE r = "us_average" -> Rat(1651, 100)
                  [] r = "california" -> Rat(2704, 100)
                  [] r = "texas" -> Rat(1281, 100)
                  [] r = "new_york" -> Rat(2030, 100)
                  [] r = "florida" -> Rat(1320, 100)],
     gas |-> [r \in Regions |->
                CASE r = "us_average" -> Rat(128, 100)
                  [] r = "california" -> Rat(185, 100)
                  [] r = "texas" -> Rat(105, 100)
                  [] r = "new_york" -> Rat(145, 100)
                  [] r = "florida" -> Rat(135, 100)],
     carbon |-> [r \in Regions |->
                CASE r = "us_average" -> Rat(85, 100)
                  [] r = "california" -> Rat(45, 100)
                  [] r = "texas" -> Rat(100, 100)
                  [] r = "new_york" -> Rat(65, 100)
                  [] r = "florida" -> Rat(88, 100)]]

gas_carbon_intensity == Rat(117, 10)
ThermToKwh == Rat(293, 10)

\* `* 12` of the lifetime columns
RealLifetimeWrong(annual) == Mul(annual, Num(10))
RealLifetime(annual) == Mul(annual, Num(12))

RECURSIVE RealElectricRegions(_, _, _)
RealElectricRegions(df, tariff, todo) ==
    IF todo = {} THEN df
    ELSE LET r == CHOOSE x \in todo : TRUE
             Cost(row) == Div(Mul(row["annual_energy_use_kwh"], tariff.elec[r]), Num(100))
             Co2(row) == Mul(row["annual_energy_use_kwh"], tariff.carbon[r])
         IN  RealElectricRegions(SetRegion(df, r, Cost, Co2, RealLifetime), tariff, todo \ {r})

RECURSIVE RealGasRegions(_, _, _)
RealGasRegions(df, tariff, todo) ==
    IF todo = {} THEN df
    ELSE LET r == CHOOSE x \in todo : TRUE
             Cost(row) == Mul(row["annual_therms_natural_gas"], tariff.gas[r])
             Co2(row) == Mul(row["annual_therms_natural_gas"], gas_carbon_intensity)
         IN  RealGasRegions(SetRegion(df, r, Cost, Co2, RealLifetime), tariff, todo \ {r})

\* object column * float: a text cell raises TypeError
HasText(df, col) == \E i \in 1..Len(df.rows) : df.rows[i][col] = TextCell

RealElectricRescore(df, tariff) ==
    LET d == IF HasText(df, "annual_energy_use_kwh") THEN Raise("TypeError")
             ELSE RealElectricRegions(df, tariff, Regions)
        ByCost(row) == Div(Num(1000), row["annual_cost_us_average"])
    IN  IF "open_efficiency_score" \in d.cols
        THEN SetCol(d, "open_efficiency_score", ByCost) ELSE d
RealElectric(df, tariff) ==
    IF HasText(df, "annual_energy_use_kwh") THEN Raise("TypeError")
    ELSE RealElectricRegions(df, tariff, Regions)

calculate_regional_impact(df, category, tariff) ==
    IF df.raised # "none" THEN df
    ELSE IF category = WaterHeaters THEN
        IF "annual_therms_natural_gas" \in df.cols THEN
            LET Therms(row) == ToNumeric(row["annual_therms_natural_gas"])
                d1 == SetCol(df, "annual_therms_natural_gas", Therms)
                Kwh(row) == Mul(row["annual_therms_natural_gas"], ThermToKwh)
                d2 == SetCol(d1, "annual_energy_use_kwh", Kwh)
            IN  RealGasRegions(d2, tariff, Regions)
        ELSE IF "annual_energy_use_kwh" \in df.cols THEN
            RealElectric(df, tariff)
        ELSE df
    ELSE IF "annual_energy_use_kwh" \in df.cols THEN
        RealElectric(df, tariff)
    ELSE df

\* Series.rank(pct=True) of column col at row: the average rank of the row's
\* value among the non-NaN values of the column, divided by their number
RankPctAsMax(df, col, row) ==
    LET v == row[col]
        valid == {i \in 1..Len(df.rows) : ~IsNaN(df.rows[i][col])}
        le == Cardinality({i \in valid : Le(df.rows[i][col], v)})
    IN  IF IsNaN(v) THEN NaN ELSE Rat(le, Cardinality(valid))
RankNoPct(df, col, row) ==
    LET v == row[col]
        valid == {i \in 1..Len(df.rows) : ~IsNaN(df.rows[i][col])}
        less == Cardinality({i \in valid : Lt(df.rows[i][col], v)})
        eq == Cardinality({i \in valid : df.rows[i][col] = v})
    IN  IF IsNaN(v) THEN NaN ELSE Rat(2 * less + eq + 1, 2)
RankDescending(df, col, row) ==
    LET v == row[col]
        valid == {i \in 1..Len(df.rows) : ~IsNaN(df.rows[i][col])}
        more == Cardinality({i \in valid : Lt(v, df.rows[i][col])})
        eq == Cardinality({i \in valid : df.rows[i][col] = v})
    IN  IF IsNaN(v) THEN NaN ELSE Rat(2 * more + eq + 1, 2 * Cardinality(valid))
RankPct(df, col, row) ==
    LET v == row[col]
        valid == {i \in 1..Len(df.rows) : ~IsNaN(df.rows[i][col])}
        less == Cardinality({i \in valid : Lt(df.rows[i][col], v)})
        eq == Cardinality({i \in valid : df.rows[i][col] = v})
    IN  IF IsNaN(v) THEN NaN ELSE Rat(2 * less + eq + 1, 2 * Cardinality(valid))

\* score_to_rating of both pipelines
score_to_rating(score) ==
    IF Ge(score, Num(90)) THEN "A+"
    ELSE IF Ge(score, Num(80)) THEN "A"
    ELSE IF Ge(score, Num(70)) THEN "B"
    ELSE IF Ge(score, Num(60)) THEN "C"
    ELSE IF Ge(score, Num(50)) THEN "D"
    ELSE "F"

\* scored['open_efficiency_score'] = scored['true_efficiency'].rank(pct=True) * 100
\* followed by .round(0)
RealPercentileScore(df) ==
    LET Pct(row) == Mul(RankPct(df, "true_efficiency", row), Num(100))
        d1 == SetCol(df, "open_efficiency_score", Pct)
        Rounded(row) == Round(row["open_efficiency_score"], 0)
    IN  SetCol(d1, "open_efficiency_score", Rounded)

\* pd.to_numeric on each of cols in turn (KeyError when one is absent), then
\* dropna(subset=cols)
RealPrepareKeepsNa(df, cols) ==
    IF ~HasCols(df, cols) THEN Raise("KeyError")
    ELSE [df EXCEPT !.rows = [i \in 1..Len(df.rows) |->
                    [c \in cols |-> ToNumeric(df.rows[i][c])] @@ df.rows[i]] \o <<>>]
RealPrepare(df, cols) ==
    IF ~HasCols(df, cols) THEN Raise("KeyError")
    ELSE DropNa([df EXCEPT !.rows = [i \in 1..Len(df.rows) |->
                    [c \in cols |-> ToNumeric(df.rows[i][c])] @@ df.rows[i]] \o <<>>], cols)

RealEfficiency(df, category) ==
    IF category = Refrigerators /\ "annual_energy_use_kwh" \in df.cols THEN
        LET d == RealPrepare(df, {"annual_energy_use_kwh", "capacity_cubic_feet"})
            TrueEff(row) == Div(row["capacity_cubic_feet"], row["annual_energy_use_kwh"])
        IN  IF Len(d.rows) > 0
            THEN RealPercentileScore(SetCol(d, "true_efficiency", TrueEff))
            ELSE d
    ELSE IF category = ClothesWashers /\ "integrated_modified_energy_factor" \in df.cols THEN
        LET d == RealPrepare(df, {"integrated_modified_energy_factor"})
            TrueEff(row) == row["integrated_modified_energy_factor"]
        IN  IF Len(d.rows) > 0
            THEN RealPercentileScore(SetCol(d, "true_efficiency", TrueEff))
            ELSE d
    ELSE IF category = Dishwashers /\ "annual_energy_use_kwh" \in df.cols THEN
        LET d == RealPrepare(df, {"annual_energy_use_kwh", "place_settings"})
            PerCycle(row) == Div(row["annual_energy_use_kwh"], Num(280))
            TrueEff(row) == Div(row["place_settings"], row["energy_per_cycle"])
        IN  IF Len(d.rows) > 0
            THEN RealPercentileScore(
                    SetCol(SetCol(d, "energy_per_cycle", PerCycle), "true_efficiency", TrueEff))
            ELSE d
    ELSE IF category = WaterHeaters /\ "uniform_energy_factor" \in df.cols THEN
        LET d == RealPrepare(df, {"uniform_energy_factor"})
            TrueEff(row) == row["uniform_energy_factor"]
        IN  IF Len(d.rows) > 0
            THEN RealPercentileScore(SetCol(d, "true_efficiency", TrueEff))
            ELSE d
    ELSE df

RealRating(df) ==
    IF df.raised # "none" THEN df
    ELSE IF "open_efficiency_score" \in df.cols THEN
        LET Rating(row) == score_to_rating(row["open_efficiency_score"])
        IN  SetCol(df, "efficiency_rating", Rating)
    ELSE df

\* RealApplianceDataPipeline.calculate_efficiency_scores
RealCalculateEfficiencyScores(df, category, tariff) ==
    calculate_regional_impact(RealRating(RealEfficiency(df, category)), category, tariff)

\* column_mapping of clean_energystar_data, as (source column, new column) pairs
column_mapping(category) ==
    CASE category = Refrigerators ->
            {<<"Brand Name", "manufacturer">>, <<"Model Number", "model_number">>,
             <<"Annual Energy Use (kWh/yr)", "annual_energy_use_kwh">>,
             <<"Adjusted Volume (ft3)", "adjusted_volume_cubic_feet">>,
             <<"Capacity (Total Volume) (ft3)", "capacity_cubic_feet">>,
             <<"Type", "configuration">>, <<"Ice Maker", "ice_maker">>,
             <<"Thru the Door Dispenser", "through_door_ice">>,
             <<"Date Available On Market", "date_available">>}
      [] category = ClothesWashers ->
            {<<"Brand Name", "manufacturer">>, <<"Model Number", "model_number">>,
             <<"Volume (cu. ft.)", "capacity_cubic_feet">>,
             <<"Integrated Modified Energy Factor (IMEF)", "integrated_modified_energy_factor">>,
             <<"Integrated Water Factor (IWF)", "integrated_water_factor">>,
             <<"Annual Energy Use (kWh/yr)", "annual_energy_use_kwh">>,
             <<"Load Configuration", "washer_type">>,
             <<"Date Available On Market", "date_available">>}
      [] category = Dishwashers ->
            {<<"Brand Name", "manufacturer">>, <<"Model Number", "model_number">>,
             <<"Capacity - Maximum Number of Place Settings", "place_settings">>,
             <<"Annual Energy Use (kWh/yr)", "annual_energy_use_kwh">>,
             <<"Water Use (gallons/cycle)", "water_per_cycle_gallons">>,
             <<"Type", "dishwasher_type">>, <<"Soil-Sensing Capability", "soil_sensor">>,
             <<"Drying Method", "drying_method">>}
      [] category = WaterHeaters ->
            {<<"Brand Name", "manufacturer">>, <<"Model Number", "model_number">>,
             <<"Storage Volume (gallons)", "tank_size_gallons">>,
             <<"First Hour Rating (gallons)", "first_hour_rating_gallons">>,
             <<"Uniform Energy Factor (UEF)", "uniform_energy_factor">>,
             <<"Type", "water_heater_type">>, <<"Fuel", "fuel_type">>,
             <<"Therms/year for Natural Gas", "annual_therms_natural_gas">>,
             <<"Gallons/year for Propane", "annual_gallons_propane">>}

\* Series.str.strip().str.title() on the manufacturer names the model draws
StripTitle(name) ==
    CASE name = "whirlpool " -> "Whirlpool"
      [] name = "GE" -> "Ge"
      [] OTHER -> name

\* a clean_energystar_data whose dropna looks at the brand name only
CleanOnBrandOnly(df, category, now) ==
    IF df.raised # "none" THEN df
    ELSE IF ~HasCols(df, {"Brand Name", "Model Number"}) THEN Raise("KeyError")
    ELSE
    LET Keep(row) == row["Brand Name"] # NaNStr
        kept == SelectSeq(df.rows, Keep)
        applied == {m \in column_mapping(category) : m[1] \in df.cols}
        mapped == {m[2] : m \in applied}
        Source(c) == (CHOOSE m \in applied : m[2] = c)[1]
        added == {"category", "energy_star_certified", "data_source", "fetch_date"}
        cols == df.cols \cup mapped \cup added
    IN  Frame(cols,
              [i \in 1..Len(kept) |->
                [c \in cols |->
                    CASE c = "category" -> category
                      [] c = "energy_star_certified" -> Num(1)
                      [] c = "data_source" -> "ENERGY_STAR_OFFICIAL"
                      [] c = "fetch_date" -> now
                      [] c = "manufacturer" -> StripTitle(kept[i][Source(c)])
                      [] c \in mapped \ {"manufacturer"} -> kept[i][Source(c)]
                      [] OTHER -> kept[i][c]] @@ <<>>] \o <<>>)

\* clean_energystar_data(df, category); now is datetime.now()
clean_energystar_data(df, category, now) ==
    IF df.raised # "none" THEN df
    ELSE IF ~HasCols(df, {"Brand Name", "Model Number"}) THEN Raise("KeyError")
    ELSE
    LET Keep(row) == row["Brand Name"] # NaNStr /\ row["Model Number"] # NaNModel
        kept == SelectSeq(df.rows, Keep)
        applied == {m \in column_mapping(category) : m[1] \in df.cols}
        mapped == {m[2] : m \in applied}
        Source(c) == (CHOOSE m \in applied : m[2] = c)[1]
        added == {"category", "energy_star_certified", "data_source", "fetch_date"}
        cols == df.cols \cup mapped \cup added
    IN  Frame(cols,
              [i \in 1..Len(kept) |->
                [c \in cols |->
                    CASE c = "category" -> category
                      [] c = "energy_star_certified" -> Num(1)
                      [] c = "data_source" -> "ENERGY_STAR_OFFICIAL"
                      [] c = "fetch_date" -> now
                      [] c = "manufacturer" -> StripTitle(kept[i][Source(c)])
                      [] c \in mapped \ {"manufacturer"} -> kept[i][Source(c)]
                      [] OTHER -> kept[i][c]] @@ <<>>] \o <<>>)

\* ------------------------------------------------ ApplianceDataPipeline
\* regional_pricing and regional_emissions of calculate_efficiency_scores, under
\* the keys region.lower().replace(' ', '_')
SampleTariff ==
    [elec |-> [r \in Regions |->
                CASE r = "us_average" -> Rat(165, 10)
                  [] r = "california" -> Rat(241, 10)
                  [] r = "texas" -> Rat(128, 10)
                  [] r = "new_york" -> Rat(203, 10)
                  [] r = "florida" -> Rat(132, 10)],
     carbon |-> [r \in Regions |->
                CASE r = "us_average" -> Rat(85, 100)
                  [] r = "california" -> Rat(45, 100)
                  [] r = "texas" -> Rat(95, 100)
                  [] r = "new_york" -> Rat(65, 100)
                  [] r = "florida" -> Rat(88, 100)]]

\* the values np.random draws for one row of generate_sample_data, per category;
\* the model draws each row from these instead of from the seeded generator
SampleKinds(category) ==
    CASE category = Refrigerators ->
            <<[manufacturer |-> "Whirlpool", certified |-> TRUE,
               x |-> Num(400), y |-> Num(20)],
              [manufacturer |-> "GE", certified |-> FALSE,
               x |-> Num(250), y |-> Num(25)],
              [manufacturer |-> "Whirlpool", certified |-> FALSE,
               x |-> Num(500), y |-> Num(25)],
              [manufacturer |-> "Bosch", certified |-> TRUE,
               x |-> Num(700), y |-> Num(14)]>>
      [] category = Dishwashers ->
            <<[manufacturer |-> "Whirlpool", certified |-> TRUE,
               x |-> Rat(6, 5), y |-> Num(12)],
              [manufacturer |-> "GE", certified |-> FALSE,
               x |-> Num(1), y |-> Num(14)],
              [manufacturer |-> "Whirlpool", certified |-> FALSE,
               x |-> Rat(12, 5), y |-> Num(12)],
              [manufacturer |-> "Bosch", certified |-> TRUE,
               x |-> Rat(7, 5), y |-> Num(14)]>>
      [] category = WaterHeaters ->
            <<[manufacturer |-> "Whirlpool", certified |-> TRUE,
               x |-> Rat(65, 100), y |-> Num(40)],
              [manufacturer |-> "GE", certified |-> FALSE,
               x |-> Rat(95, 100), y |-> Num(50)],
              [manufacturer |-> "Whirlpool", certified |-> FALSE,
               x |-> Rat(92, 100), y |-> Num(50)],
              [manufacturer |-> "Bosch", certified |-> TRUE,
               x |-> Rat(65, 100), y |-> Num(80)]>>
      [] category = ClothesWashers ->
            <<[manufacturer |-> "Whirlpool", certified |-> TRUE,
               x |-> Num(2), y |-> Num(4)],
              [manufacturer |-> "GE", certified |-> FALSE,
               x |-> Num(3), y |-> Num(5)],
              [manufacturer |-> "Whirlpool", certified |-> FALSE,
               x |-> Rat(3, 2), y |-> Num(4)],
              [manufacturer |-> "Bosch", certified |-> TRUE,
               x |-> Rat(5, 2), y |-> Rat(16, 5)]>>

\* the two category-specific columns the model keeps of generate_sample_data
SampleSpecCols(category) ==
    CASE category = Refrigerators -> <<"annual_energy_use_kwh", "adjusted_volume_cubic_feet">>
      [] category = Dishwashers -> <<"energy_per_cycle_kwh", "place_settings">>
      [] category = WaterHeaters -> <<"uniform_energy_factor", "first_hour_rating_gallons">>
      [] category = ClothesWashers -> <<"integrated_modified_energy_factor", "capacity_cubic_feet">>

\* category[0].upper() of f"Model-{category[0].upper()}{i:04d}"
ModelPrefix(category) ==
    CASE category = Refrigerators -> "Model-R"
      [] category = Dishwashers -> "Model-D"
      [] category = WaterHeaters -> "Model-W"
      [] category = ClothesWashers -> "Model-C"

\* generate_sample_data(category, count): draws[i] is the kind drawn for row i - 1
generate_sample_data(category, draws) ==
    LET sc == SampleSpecCols(category)
        cols == {"manufacturer", "model_number", "category", "energy_star_certified",
                 sc[1], sc[2]}
    IN  Frame(cols,
              [i \in 1..Len(draws) |->
                LET k == SampleKinds(category)[draws[i]]
                IN  [c \in cols |->
                        CASE c = "manufacturer" -> k.manufacturer
                          [] c = "model_number" -> <<ModelPrefix(category), i - 1>>
                          [] c = "category" -> category
                          [] c = "energy_star_certified" -> k.certified
                          [] c = sc[1] -> k.x
                          [] c = sc[2] -> k.y] @@ <<>>] \o <<>>)

\* base + (efficiency - anchor) * slope
Band(efficiency, base, anchor, slope) ==
    Add(Num(base), Mul(Sub(efficiency, anchor), Num(slope)))

fridge_score(efficiency) ==
    IF Ge(efficiency, Rat(90, 1000)) THEN Band(efficiency, 95, Rat(90, 1000), 500)
    ELSE IF Ge(efficiency, Rat(80, 1000)) THEN Band(efficiency, 85, Rat(80, 1000), 100)
    ELSE IF Ge(efficiency, Rat(70, 1000)) THEN Band(efficiency, 75, Rat(70, 1000), 100)
    ELSE IF Ge(efficiency, Rat(60, 1000)) THEN Band(efficiency, 65, Rat(60, 1000), 100)
    ELSE IF Ge(efficiency, Rat(50, 1000)) THEN Band(efficiency, 55, Rat(50, 1000), 100)
    ELSE Max(Num(10), Band(efficiency, 55, Rat(50, 1000), 100))

dishwasher_score(efficiency) ==
    IF Ge(efficiency, Num(12)) THEN Band(efficiency, 95, Num(12), 5)
    ELSE IF Ge(efficiency, Num(10)) THEN Band(efficiency, 85, Num(10), 5)
    ELSE IF Ge(efficiency, Num(8)) THEN Band(efficiency, 75, Num(8), 5)
    ELSE IF Ge(efficiency, Num(6)) THEN Band(efficiency, 65, Num(6), 5)
    ELSE IF Ge(efficiency, Num(4)) THEN Band(efficiency, 55, Num(4), 5)
    ELSE Max(Num(10), Band(efficiency, 55, Num(4), 5))

\* a water_heater_score whose A+ range rises half as fast
WaterHeaterScoreSlow(uef) ==
    IF Ge(uef, Rat(90, 100)) THEN Band(uef, 95, Rat(90, 100), 50)
    ELSE IF Ge(uef, Rat(80, 100)) THEN Band(uef, 85, Rat(80, 100), 100)
    ELSE IF Ge(uef, Rat(70, 100)) THEN Band(uef, 75, Rat(70, 100), 100)
    ELSE IF Ge(uef, Rat(60, 100)) THEN Band(uef, 65, Rat(60, 100), 100)
    ELSE IF Ge(uef, Rat(50, 100)) THEN Band(uef, 55, Rat(50, 100), 100)
    ELSE Max(Num(10), Band(uef, 55, Rat(50, 100), 100))
water_heater_score(uef) ==
    IF Ge(uef, Rat(90, 100)) THEN Band(uef, 95, Rat(90, 100), 100)
    ELSE IF Ge(uef, Rat(80, 100)) THEN Band(uef, 85, Rat(80, 100), 100)
    ELSE IF Ge(uef, Rat(70, 100)) THEN Band(uef, 75, Rat(70, 100), 100)
    ELSE IF Ge(uef, Rat(60, 100)) THEN Band(uef, 65, Rat(60, 100), 100)
    ELSE IF Ge(uef, Rat(50, 100)) THEN Band(uef, 55, Rat(50, 100), 100)
    ELSE Max(Num(10), Band(uef, 55, Rat(50, 100), 100))

\* a washer_score whose A range has the slope 12: it overtakes the A+ anchor
WasherScoreSteep(efficiency) ==
    IF Ge(efficiency, Num(14)) THEN Band(efficiency, 95, Num(14), 2)
    ELSE IF Ge(efficiency, Num(12)) THEN Band(efficiency, 85, Num(12), 12)
    ELSE IF Ge(efficiency, Num(10)) THEN Band(efficiency, 75, Num(10), 5)
    ELSE IF Ge(efficiency, Num(8)) THEN Band(efficiency, 65, Num(8), 5)
    ELSE IF Ge(efficiency, Num(6)) THEN Band(efficiency, 55, Num(6), 5)
    ELSE Max(Num(10), Band(efficiency, 55, Num(6), 5))
washer_score(efficiency) ==
    IF Ge(efficiency, Num(14)) THEN Band(efficiency, 95, Num(14), 2)
    ELSE IF Ge(efficiency, Num(12)) THEN Band(efficiency, 85, Num(12), 5)
    ELSE IF Ge(efficiency, Num(10)) THEN Band(efficiency, 75, Num(10), 5)
    ELSE IF Ge(efficiency, Num(8)) THEN Band(efficiency, 65, Num(8), 5)
    ELSE IF Ge(efficiency, Num(6)) THEN Band(efficiency, 55, Num(6), 5)
    ELSE Max(Num(10), Band(efficiency, 55, Num(6), 5))

\* df['true_efficiency'].apply(<category>_score).clip(10, 100)
AbsoluteScore(category, efficiency) ==
    LET raw == CASE category = Refrigerators -> fridge_score(efficiency)
                 [] category = Dishwashers -> dishwasher_score(efficiency)
                 [] category = WaterHeaters -> water_heater_score(efficiency)
                 [] category = ClothesWashers -> washer_score(efficiency)
    IN  Clip(raw, Num(10), Num(100))

\* the true efficiency and annual_energy_kwh columns, by category
SampleTrueEfficiency(df, category) ==
    CASE category = Refrigerators ->
            IF ~HasCols(df, {"adjusted_volume_cubic_feet", "annual_energy_use_kwh"})
            THEN Raise("KeyError")
            ELSE LET TrueEff(row) ==
                        Div(row["adjusted_volume_cubic_feet"], row["annual_energy_use_kwh"])
                     Energy(row) == row["annual_energy_use_kwh"]
                 IN  SetCol(SetCol(df, "true_efficiency", TrueEff), "annual_energy_kwh", Energy)
      [] category = Dishwashers ->
            IF ~HasCols(df, {"place_settings", "energy_per_cycle_kwh"})
            THEN Raise("KeyError")
            ELSE LET TrueEff(row) == Div(row["place_settings"], row["energy_per_cycle_kwh"])
                     Energy(row) == Mul(row["energy_per_cycle_kwh"], Num(280))
                 IN  SetCol(SetCol(df, "true_efficiency", TrueEff), "annual_energy_kwh", Energy)
      [] category = WaterHeaters ->
            IF ~HasCols(df, {"uniform_energy_factor"})
            THEN Raise("KeyError")
            ELSE LET TrueEff(row) == row["uniform_energy_factor"]
                     Energy(row) == Div(Num(3000), row["uniform_energy_factor"])
                 IN  SetCol(SetCol(df, "true_efficiency", TrueEff), "annual_energy_kwh", Energy)
      [] category = ClothesWashers ->
            IF ~HasCols(df, {"integrated_modified_energy_factor", "capacity_cubic_feet"})
            THEN Raise("KeyError")
            ELSE LET Energy(row) == Div(Num(300), row["integrated_modified_energy_factor"])
                     TrueEff(row) ==
                        Div(row["capacity_cubic_feet"], Div(row["annual_energy_kwh"], Num(300)))
                 IN  SetCol(SetCol(df, "annual_energy_kwh", Energy), "true_efficiency", TrueEff)

\* the score by absolute thresholds, and the rating computed from it
SampleAbsolute(df, category) ==
    IF df.raised # "none" THEN df
    ELSE LET Score(row) == AbsoluteScore(category, row["true_efficiency"])
             Rating(row) == score_to_rating(row["open_efficiency_score"])
         IN  SetCol(SetCol(df, "open_efficiency_score", Score), "efficiency_rating", Rating)

\* `* 12` of the lifetime columns
SampleLifetime(annual) == Mul(annual, Num(12))

RECURSIVE SampleRegions(_, _, _)
SampleRegions(df, tariff, todo) ==
    IF todo = {} THEN df
    ELSE LET r == CHOOSE x \in todo : TRUE
             Cost(row) == Div(Mul(row["annual_energy_kwh"], tariff.elec[r]), Num(100))
             Co2(row) == Mul(row["annual_energy_kwh"], tariff.carbon[r])
         IN  SampleRegions(SetRegion(df, r, Cost, Co2, SampleLifetime), tariff, todo \ {r})

SampleRegional(df, tariff) ==
    IF df.raised # "none" THEN df ELSE SampleRegions(df, tariff, Regions)

\* df_scored['efficiency_percentile'] = (rank(pct=True) * 100).round(1)
SamplePercentileColumn(df) ==
    LET Pct(row) == Round(Mul(RankPct(df, "true_efficiency", row), Num(100)), 1)
    IN  SetCol(df, "efficiency_percentile", Pct)

\* df_scored['open_efficiency_score'] = df_scored['efficiency_percentile']
SampleKeepAbsolute(df) == df
SampleBlendCost(df) ==
    LET Blend(row) == Sub(row["efficiency_percentile"],
                          Div(row["annual_cost_us_average"], Num(100)))
    IN  SetCol(df, "open_efficiency_score", Blend)
SampleOverwriteScore(df) ==
    LET Copy(row) == row["efficiency_percentile"]
    IN  SetCol(df, "open_efficiency_score", Copy)

\* the second df_scored['efficiency_rating'] = ...apply(score_to_rating)
SampleKeepRating(df) == df
SampleRerate(df) ==
    LET Rating(row) == score_to_rating(row["open_efficiency_score"])
    IN  SetCol(df, "efficiency_rating", Rating)

SamplePercentile(df) ==
    IF df.raised # "none" THEN df
    ELSE SampleRerate(SampleOverwriteScore(SamplePercentileColumn(df)))

\* ApplianceDataPipeline.calculate_efficiency_scores
SampleCalculateEfficiencyScores(df, category, tariff) ==
    SamplePercentile(
        SampleRegional(SampleAbsolute(SampleTrueEfficiency(df, category), category), tariff))

\* ------------------------------------------------------------ source data
\* the rows an ENERGY STAR CSV may hold, per category: brand, model number and the
\* three numeric columns RawCols names.  Kind 4 repeats the model number of kind 1
\* and ties with its true efficiency.
RealKinds(category) ==
    CASE category = Refrigerators ->
            <<[brand |-> "whirlpool ", model |-> <<"ES", 1>>,
               a |-> Num(400), b |-> Num(20), c |-> Num(24)],
              [brand |-> "GE", model |-> <<"ES", 2>>,
               a |-> Num(200), b |-> Num(20), c |-> Num(22)],
              [brand |-> "Bosch", model |-> <<"ES", 3>>,
               a |-> Num(400), b |-> Num(10), c |-> Num(12)],
              [brand |-> "whirlpool ", model |-> <<"ES", 1>>,
               a |-> Num(800), b |-> Num(40), c |-> Num(44)]>>
      [] category = ClothesWashers ->
            <<[brand |-> "whirlpool ", model |-> <<"ES", 1>>,
               a |-> Num(120), b |-> Num(2), c |-> Rat(9, 2)],
              [brand |-> "GE", model |-> <<"ES", 2>>,
               a |-> Num(100), b |-> Rat(14, 5), c |-> Rat(9, 2)],
              [brand |-> "Bosch", model |-> <<"ES", 3>>,
               a |-> Num(150), b |-> Rat(3, 2), c |-> Num(4)],
              [brand |-> "whirlpool ", model |-> <<"ES", 1>>,
               a |-> Num(120), b |-> Num(2), c |-> Num(5)]>>
      [] category = Dishwashers ->
            <<[brand |-> "whirlpool ", model |-> <<"ES", 1>>,
               a |-> Num(270), b |-> Num(12), c |-> Rat(7, 2)],
              [brand |-> "GE", model |-> <<"ES", 2>>,
               a |-> Num(240), b |-> Num(14), c |-> Num(3)],
              [brand |-> "Bosch", model |-> <<"ES", 3>>,
               a |-> Num(300), b |-> Num(8), c |-> Num(4)],
              [brand |-> "whirlpool ", model |-> <<"ES", 1>>,
               a |-> Num(540), b |-> Num(24), c |-> Num(5)]>>
      [] category = WaterHeaters ->
            <<[brand |-> "whirlpool ", model |-> <<"ES", 1>>,
               a |-> Num(40), b |-> Rat(64, 100), c |-> Num(220)],
              [brand |-> "GE", model |-> <<"ES", 2>>,
               a |-> Num(50), b |-> Rat(92, 100), c |-> Num(150)],
              [brand |-> "Bosch", model |-> <<"ES", 3>>,
               a |-> Num(40), b |-> Rat(58, 100), c |-> Num(240)],
              [brand |-> "whirlpool ", model |-> <<"ES", 1>>,
               a |-> Num(50), b |-> Rat(64, 100), c |-> Num(200)]>>

\* the CSV columns that hold a, b and c of a kind
RawCols(category) ==
    CASE category = Refrigerators ->
            <<"Annual Energy Use (kWh/yr)", "Capacity (Total Volume) (ft3)",
              "Adjusted Volume (ft3)">>
      [] category = ClothesWashers ->
            <<"Annual Energy Use (kWh/yr)", "Integrated Modified Energy Factor (IMEF)",
              "Volume (cu. ft.)">>
      [] category = Dishwashers ->
            <<"Annual Energy Use (kWh/yr)", "Capacity - Maximum Number of Place Settings",
              "Water Use (gallons/cycle)">>
      [] category = WaterHeaters ->
            <<"Storage Volume (gallons)", "Uniform Energy Factor (UEF)",
              "Therms/year for Natural Gas">>

\* rows with a defect, numbered after the four kinds of RealKinds; each is kind 2
\* of its category with one field replaced:
\*   5 no Brand Name            6 no Model Number
\*   7 column a empty           8 column a holds text
\*   9 column b empty          10 column a is 0
\*  11 column c empty (for water heaters: an electric model, no therms, whose
\*     consumption is in a column annual_energy_use_kwh of the file)
DefectKinds == 5..11
SourceKind(category, k) ==
    LET good == RealKinds(category)[2]
    IN  CASE k \in 1..4 -> RealKinds(category)[k]
          [] k = 5 -> [good EXCEPT !.brand = NaNStr]
          [] k = 6 -> [good EXCEPT !.model = NaNModel]
          [] k = 7 -> [good EXCEPT !.a = NaN]
          [] k = 8 -> [good EXCEPT !.a = TextCell]
          [] k = 9 -> [good EXCEPT !.b = NaN]
          [] k = 10 -> [good EXCEPT !.a = Num(0)]
          [] k = 11 -> [good EXCEPT !.c = NaN]

\* the consumption an electric water heater (kind 11) states, in kWh a year
ElectricKwh == Num(3000)

\* fetch_energystar_data(category) when the download succeeds: pd.read_csv of the
\* file whose rows are the kinds draws names
fetch_energystar_data(category, draws) ==
    LET rc == RawCols(category)
        electric == category = WaterHeaters /\ \E i \in 1..Len(draws) : draws[i] = 11
        cols == {"Brand Name", "Model Number", rc[1], rc[2], rc[3]}
                    \cup (IF electric THEN {"annual_energy_use_kwh"} ELSE {})
    IN  Frame(cols,
              [i \in 1..Len(draws) |->
                LET k == SourceKind(category, draws[i])
                IN  [col \in cols |->
                        CASE col = "Brand Name" -> k.brand
                          [] col = "Model Number" -> k.model
                          [] col = rc[1] -> k.a
                          [] col = rc[2] -> k.b
                          [] col = rc[3] -> k.c
                          [] col = "annual_energy_use_kwh" ->
                                IF draws[i] = 11 THEN ElectricKwh ELSE NaN] @@ <<>>] \o <<>>)

\* the same file published without the columns gone: pd.read_csv returns a frame
\* that lacks them
WithoutCols(df, gone) ==
    [df EXCEPT
        !.cols = @ \ gone,
        !.rows = [i \in 1..Len(df.rows) |->
                    [c \in df.cols \ gone |-> df.rows[i][c]] @@ <<>>] \o <<>>]

Kinds == 1..4

\* every sequence of kinds of length 0..n
SeqsUpTo(n) == UNION {[1..m -> Kinds] : m \in 0..n}

\* the non-decreasing sequence holding counts[k] rows of kind k, k in 1..3
FromCounts(counts) ==
    [i \in 1..(counts[1] + counts[2] + counts[3]) |->
        IF i <= counts[1] THEN 1
        ELSE IF i <= counts[1] + counts[2] THEN 2
        ELSE 3]

\* every non-decreasing sequence of the kinds 1..3 of length 1..n
SortedUpTo(n) ==
    {FromCounts(counts) : counts \in
        {cv \in [1..3 -> 0..n] : cv[1] + cv[2] + cv[3] \in 1..n}}

\* ------------------------------------------------------------------ state
VARIABLES
    sc,      \* one call of calculate_efficiency_scores and its rerun (see below)
    band,    \* one application of the absolute-threshold scores (see below)
    api,     \* the query layer: the request served last and its response (see below)
    pipe,    \* the pipeline object: "real" (RealApplianceDataPipeline) or "sample"
    source,  \* the kinds of the rows the data source holds
    absent,  \* <<category, column>>: the column is not in the category's CSV
    faults,  \* <<category, step>>: the I/O of that step fails for the category
    pc,      \* where run_full_pipeline / process_category stands
    queue,   \* the categories the loop of run_full_pipeline has still to process
    data,    \* the frame process_category holds (raw_data, cleaned_data, scored_data)
    results, \* the keys of the dict run_full_pipeline returns, in insertion order
    db,      \* the SQLite files: file name -> table name -> frame
    files,   \* the exported files: category -> frame written
    runs,    \* calls of run_full_pipeline so far
    log,     \* the records the current run has logged
    hist,    \* history: <<category, step, outcome>> of every step of the current run
    before   \* history: db and files as they were when the current run started

vars == <<sc, band, api, pipe, source, absent, faults, pc, queue, data, results, db,
          files, runs, log, hist, before>>
pipeVars == <<band, api, pipe, source, absent, faults, pc, queue, data, results, db, files,
              runs, log, hist, before>>
\* what a run never changes
env == <<sc, band, api, pipe, source, absent, faults>>

ScOff == [phase |-> "off", pipe |-> "none", category |-> "none", draws |-> <<>>,
          mid |-> EmptyFrame, out |-> EmptyFrame, rerun |-> EmptyFrame]

IndexDb == "open_efficiency_index.db"
RealDb == "open_efficiency_index_REAL.db"

NoTables == [f \in {IndexDb, RealDb} |-> <<>>]

BandOff == [phase |-> "off", category |-> "none", frame |-> EmptyFrame]
ApiOff == [phase |-> "off"]

PipeOff ==
    /\ pipe = "none" /\ source = <<>> /\ pc = "off" /\ queue = <<>>
    /\ absent = {} /\ faults = {}
    /\ data = EmptyFrame /\ results = <<>> /\ runs = 0
    /\ db = NoTables
    /\ files = <<>>
    /\ log = <<>> /\ hist = <<>> /\ before = [db |-> NoTables, files |-> <<>>]

\* ------------------------------------- calculate_efficiency_scores alone
\* sc.phase   "input": the frame is drawn; "scored": the call has returned;
\*            "rerun": the same call was made again with other regional tables
\* sc.pipe    "real" or "sample"; sc.category; sc.draws: the kinds of the rows
\* sc.mid     the frame before the last stage (real: the argument of
\*            calculate_regional_impact; sample: before the percentile overwrite)
\* sc.out     the frame returned;  sc.rerun  the frame the rerun returned

\* prices doubled, intensities tripled; and the tables with the regions' values
\* exchanged
AltTariffs(tariff) ==
    {[f \in DOMAIN tariff |->
        [r \in Regions |-> Mul(tariff[f][r], IF f = "carbon" THEN Num(3) ELSE Num(2))]],
     [f \in DOMAIN tariff |->
        [r \in Regions |-> tariff[f][IF r = "texas" THEN "california"
                                      ELSE IF r = "california" THEN "texas" ELSE r]]]}

ScInput(p, category, draws) ==
    IF p = "real"
    THEN clean_energystar_data(fetch_energystar_data(category, draws), category, <<"now", 1>>)
    ELSE generate_sample_data(category, draws)

ScDraws(p) ==
    IF p = "real" THEN SeqsUpTo(MaxRows) \cup SortedUpTo(MaxPop)
    ELSE (SeqsUpTo(MaxRows) \ {<<>>}) \cup SortedUpTo(MaxPop)

InitScore ==
    \E p \in {"real", "sample"}, category \in Categories :
        \E draws \in ScDraws(p) :
            /\ sc = [phase |-> "input", pipe |-> p, category |-> category,
                     draws |-> draws, mid |-> EmptyFrame, out |-> EmptyFrame,
                     rerun |-> EmptyFrame]
            /\ band = BandOff /\ api = ApiOff /\ PipeOff

ScoreReal ==
    /\ UNCHANGED pipeVars
    /\ sc.phase = "input" /\ sc.pipe = "real"
    /\ LET input == ScInput(sc.pipe, sc.category, sc.draws)
           mid == RealRating(RealEfficiency(input, sc.category))
       IN  sc' = [sc EXCEPT
                !.phase = "scored",
                !.mid = mid,
                !.out = calculate_regional_impact(mid, sc.category, RealTariff)]

ScoreSample ==
    /\ UNCHANGED pipeVars
    /\ sc.phase = "input" /\ sc.pipe = "sample"
    /\ LET input == ScInput(sc.pipe, sc.category, sc.draws)
           mid == SampleRegional(
                    SampleAbsolute(SampleTrueEfficiency(input, sc.category), sc.category),
                    SampleTariff)
       IN  sc' = [sc EXCEPT
                !.phase = "scored",
                !.mid = mid,
                !.out = SamplePercentile(mid)]

RerunReal ==
    /\ UNCHANGED pipeVars
    /\ sc.phase = "scored" /\ sc.pipe = "real"
    /\ \E tariff \in AltTariffs(RealTariff) :
        sc' = [sc EXCEPT
                !.phase = "rerun",
                !.rerun = RealCalculateEfficiencyScores(
                            ScInput(sc.pipe, sc.category, sc.draws), sc.category, tariff)]

RerunSample ==
    /\ UNCHANGED pipeVars
    /\ sc.phase = "scored" /\ sc.pipe = "sample"
    /\ \E tariff \in AltTariffs(SampleTariff) :
        sc' = [sc EXCEPT
                !.phase = "rerun",
                !.rerun = SampleCalculateEfficiencyScores(
                            ScInput(sc.pipe, sc.category, sc.draws), sc.category, tariff)]

NextScore == ScoreReal \/ ScoreSample \/ RerunReal \/ RerunSample

SpecScore == InitScore /\ [][NextScore]_vars

\* ------------------------------------- the absolute-threshold scores alone
\* band.phase  "input": a frame of true efficiencies is drawn; "scored": the
\*             score functions, the clip and score_to_rating were applied
\* band.category; band.frame: the frame, one column true_efficiency at first

\* the efficiencies a frame is drawn from, per category: the multiples of a
\* step that is half the narrowest band, from 0 to beyond the value at which
\* the clip at 100 sets in, and for water heaters 0.92 besides
BandStep(category) ==
    CASE category = Refrigerators -> Rat(1, 200)
      [] category = Dishwashers -> Num(1)
      [] category = WaterHeaters -> Rat(1, 20)
      [] category = ClothesWashers -> Num(1)
BandGrid(category) ==
    {Mul(Num(k), BandStep(category)) : k \in 0..MaxBand}
        \cup (IF category = WaterHeaters THEN {Rat(92, 100)} ELSE {})

InitBand ==
    /\ \E category \in Categories :
        \E lo \in BandGrid(category), hi \in BandGrid(category) :
            /\ Le(lo, hi)
            /\ band = [phase |-> "input", category |-> category,
                       frame |-> Frame({"true_efficiency"},
                                       <<[true_efficiency |-> lo],
                                         [true_efficiency |-> hi]>>)]
    /\ sc = ScOff /\ api = ApiOff /\ PipeOff

\* df_scored['open_efficiency_score'] = ...apply(<category>_score).clip(10, 100);
\* df_scored['efficiency_rating'] = ...apply(score_to_rating)
BandScore ==
    /\ band.phase = "input"
    /\ band' = [band EXCEPT
                !.phase = "scored",
                !.frame = SampleAbsolute(band.frame, band.category)]
    /\ UNCHANGED <<sc, api, pipe, source, absent, faults, pc, queue, data, results, db,
                   files, runs, log, hist, before>>

NextBand == BandScore

SpecBand == InitBand /\ [][NextBand]_vars

\* ------------------------------------------------------- properties: scoring
ScReturned == sc.phase # "input" /\ sc.out.raised = "none"
ScScored == ScReturned /\ "open_efficiency_score" \in sc.out.cols
ScRowIds == 1..Len(sc.out.rows)
\* the rows of the population that have a true efficiency
ScValid == {i \in ScRowIds : ~IsNaN(sc.out.rows[i]["true_efficiency"])}
\* decimals the pipeline rounds the score to
ScDecimals == IF sc.pipe = "real" THEN 0 ELSE 1

\* C1: in both pipelines the score is a non-decreasing function of the true
\* efficiency within the scored table, and rows of equal true efficiency get equal
\* scores.
C1_ScoreMonotone ==
    ScScored =>
        \A i, j \in ScRowIds :
            LET a == sc.out.rows[i]
                b == sc.out.rows[j]
            IN  /\ Le(a["true_efficiency"], b["true_efficiency"])
                        => Le(a["open_efficiency_score"], b["open_efficiency_score"])
                /\ a["true_efficiency"] = b["true_efficiency"]
                        => a["open_efficiency_score"] = b["open_efficiency_score"]

\* a scored table holding two different rows that tie and a third, less efficient
\* row that scores lower
C1_Witness ==
    /\ ScScored
    /\ \E i, j, k \in ScRowIds :
        /\ i # j
        /\ sc.draws[i] # sc.draws[j]
        /\ sc.out.rows[i]["true_efficiency"] = sc.out.rows[j]["true_efficiency"]
        /\ Lt(sc.out.rows[k]["true_efficiency"], sc.out.rows[i]["true_efficiency"])
        /\ Lt(sc.out.rows[k]["open_efficiency_score"], sc.out.rows[i]["open_efficiency_score"])

\* the cutoff table of the specification
CutoffRating(score) ==
    CASE Le(Num(90), score) -> "A+"
      [] Lt(score, Num(90)) /\ Le(Num(80), score) -> "A"
      [] Lt(score, Num(80)) /\ Le(Num(70), score) -> "B"
      [] Lt(score, Num(70)) /\ Le(Num(60), score) -> "C"
      [] Lt(score, Num(60)) /\ Le(Num(50), score) -> "D"
      [] OTHER -> "F"

\* C2: every returned row that has a score has the rating the cutoff table gives
\* for that final score.
C2_RatingFromFinalScore ==
    ScScored =>
        /\ "efficiency_rating" \in sc.out.cols
        /\ \A i \in ScRowIds :
            sc.out.rows[i]["efficiency_rating"]
                = CutoffRating(sc.out.rows[i]["open_efficiency_score"])

\* a row of the sample pipeline whose rating by the absolute score differs from its
\* final rating
C2_Witness ==
    /\ ScScored /\ sc.pipe = "sample"
    /\ \E i \in ScRowIds :
        sc.mid.rows[i]["efficiency_rating"] # sc.out.rows[i]["efficiency_rating"]

\* true efficiency, score and rating of every row
ScoreView(df) ==
    [i \in 1..Len(df.rows) |->
        [c \in df.cols \cap {"true_efficiency", "open_efficiency_score", "efficiency_rating"}
            |-> df.rows[i][c]]]

ImpactCols(df, category) ==
    IF category = WaterHeaters /\ "annual_therms_natural_gas" \in df.cols
    THEN RegionalCols \cup {"annual_energy_use_kwh", "annual_therms_natural_gas"}
    ELSE RegionalCols

\* C4: calculate_regional_impact returns the rows of its argument with every
\* column other than the regional ones (and, for water heaters with a therms
\* column, the energy and therms columns) unchanged; score, true efficiency and
\* rating are never written.
C4_ImpactFrame ==
    (sc.phase # "input" /\ sc.pipe = "real" /\ sc.mid.raised = "none") =>
        /\ sc.out.raised = "none"
        /\ Len(sc.out.rows) = Len(sc.mid.rows)
        /\ sc.mid.cols \subseteq sc.out.cols
        /\ sc.out.cols \ sc.mid.cols \subseteq ImpactCols(sc.mid, sc.category)
        /\ \A i \in 1..Len(sc.mid.rows) :
            \A c \in sc.mid.cols \ ImpactCols(sc.mid, sc.category) :
                sc.out.rows[i][c] = sc.mid.rows[i][c]

\* a scored table to which calculate_regional_impact added the regional columns
C4_Witness ==
    /\ sc.phase # "input" /\ sc.pipe = "real"
    /\ Len(sc.mid.rows) > 0
    /\ "open_efficiency_score" \in sc.mid.cols
    /\ RegionalCols \cap sc.mid.cols = {}
    /\ RegionalCols \subseteq sc.out.cols

\* C5: wherever a regional annual value is computed, the lifetime value is the
\* annual value times 12, for cost and for CO2, in both pipelines and branches.
C5_LifetimeIsTwelveYears ==
    ScReturned =>
        \A i \in ScRowIds, r \in Regions :
            /\ AnnualCostCol(r) \in sc.out.cols =>
                /\ LifetimeCostCol(r) \in sc.out.cols
                /\ sc.out.rows[i][LifetimeCostCol(r)]
                        = Mul(sc.out.rows[i][AnnualCostCol(r)], Num(12))
            /\ AnnualCo2Col(r) \in sc.out.cols =>
                /\ LifetimeCo2Col(r) \in sc.out.cols
                /\ sc.out.rows[i][LifetimeCo2Col(r)]
                        = Mul(sc.out.rows[i][AnnualCo2Col(r)], Num(12))

\* a gas water heater of the real pipeline with its regional costs computed
C5_Witness ==
    /\ ScReturned /\ sc.pipe = "real" /\ sc.category = WaterHeaters
    /\ \E i \in ScRowIds :
        /\ "annual_therms_natural_gas" \in sc.out.cols
        /\ \A r \in Regions : Lt(Num(0), sc.out.rows[i][LifetimeCostCol(r)])

\* number of scored rows whose true efficiency is below / equal to / at most that
\* of row i
ScLess(i) ==
    Cardinality({j \in ScValid :
        Lt(sc.out.rows[j]["true_efficiency"], sc.out.rows[i]["true_efficiency"])})
ScEqual(i) ==
    Cardinality({j \in ScValid :
        sc.out.rows[j]["true_efficiency"] = sc.out.rows[i]["true_efficiency"]})
ScAtMost(i) ==
    Cardinality({j \in ScValid :
        Le(sc.out.rows[j]["true_efficiency"], sc.out.rows[i]["true_efficiency"])})

\* C6 as claimed: the score is 100 x (number of records with true efficiency <= v)
\* / n, rounded to the pipeline's precision, ties included.
C6_ScoreIsCountAtMost ==
    ScScored =>
        \A i \in ScValid :
            sc.out.rows[i]["open_efficiency_score"]
                = Round(Rat(100 * ScAtMost(i), Cardinality(ScValid)), ScDecimals)

\* C6 amended: the score is 100 x (average rank of v) / n rounded to the pipeline's
\* precision, the average rank being (records below v) + (records equal to v + 1)/2.
C6_ScoreIsAverageRank ==
    ScScored =>
        \A i \in ScValid :
            sc.out.rows[i]["open_efficiency_score"]
                = Round(Rat(100 * (2 * ScLess(i) + ScEqual(i) + 1), 2 * Cardinality(ScValid)),
                        ScDecimals)

\* a scored population in which several records share a true efficiency
C6_Witness ==
    /\ ScScored
    /\ \E i \in ScValid : ScEqual(i) > 1 /\ ScLess(i) > 0

\* C7 as claimed: every score lies in [10, 100].
C7_ScoreAtLeastTen ==
    ScScored =>
        \A i \in ScRowIds :
            /\ Le(Num(10), sc.out.rows[i]["open_efficiency_score"])
            /\ Le(sc.out.rows[i]["open_efficiency_score"], Num(100))

\* C7 amended: every score that is not NaN lies in [0, 100]; the percentile score
\* is not clamped at 10.
C7_ScoreInZeroToHundred ==
    ScScored =>
        \A i \in ScRowIds :
            ~IsNaN(sc.out.rows[i]["open_efficiency_score"]) =>
                /\ Le(Num(0), sc.out.rows[i]["open_efficiency_score"])
                /\ Le(sc.out.rows[i]["open_efficiency_score"], Num(100))

\* the lowest-ranked record of a population of more than ten records
C7_Witness ==
    /\ ScScored /\ Cardinality(ScValid) > 10
    /\ \E i \in ScValid :
        /\ ScLess(i) = 0
        /\ Lt(sc.out.rows[i]["open_efficiency_score"], Num(10))

\* ---------------------------------------------------------------- storage
\* f"{category}_scored" and f"{category}_real"
ScoredTable(category) ==
    CASE category = Refrigerators -> "refrigerators_scored"
      [] category = Dishwashers -> "dishwashers_scored"
      [] category = WaterHeaters -> "water_heaters_scored"
      [] category = ClothesWashers -> "clothes_washers_scored"
RealTable(category) ==
    CASE category = Refrigerators -> "refrigerators_real"
      [] category = Dishwashers -> "dishwashers_real"
      [] category = WaterHeaters -> "water_heaters_real"
      [] category = ClothesWashers -> "clothes_washers_real"

unified_columns ==
    {"manufacturer", "model_number", "category", "energy_star_certified",
     "data_source", "fetch_date", "open_efficiency_score", "efficiency_rating"}

\* df[columns].copy()
Project(frame, columns) ==
    [frame EXCEPT
        !.cols = columns,
        !.rows = [i \in 1..Len(frame.rows) |->
                    [c \in columns |-> frame.rows[i][c]] @@ <<>>] \o <<>>]

\* DataFrame.to_sql(name, conn, if_exists='replace'): the tables of the file with
\* table name dropped, created anew and filled with the frame
ToSqlReplace(tables, name, frame) ==
    [raised |-> "none", tables |-> (name :> Frame(frame.cols, frame.rows)) @@ tables]

\* a column the table has and the frame lacks is stored as NULL
SqlNull == <<"NULL">>

\* DataFrame.to_sql(name, conn, if_exists='append'): the table is created when it
\* does not exist; otherwise the rows are inserted after those it holds, and the
\* INSERT fails when the frame has a column the table lacks
ToSqlAppend(tables, name, frame) ==
    IF name \notin DOMAIN tables
    THEN [raised |-> "none", tables |-> (name :> Frame(frame.cols, frame.rows)) @@ tables]
    ELSE IF ~(frame.cols \subseteq tables[name].cols)
    THEN [raised |-> "OperationalError", tables |-> tables]
    ELSE LET old == tables[name]
             new == [i \in 1..Len(frame.rows) |->
                        [c \in old.cols |-> IF c \in frame.cols THEN frame.rows[i][c]
                                            ELSE SqlNull] @@ <<>>] \o <<>>
         IN  [raised |-> "none",
              tables |-> (name :> Frame(old.cols, old.rows \o new)) @@ tables]

\* RealApplianceDataPipeline.save_to_database on the tables of
\* open_efficiency_index_REAL.db
RealSaveToDatabase(tables, frame, category) ==
    LET first == ToSqlReplace(tables, RealTable(category), frame)
        available_columns == unified_columns \cap frame.cols
    IN  ToSqlAppend(first.tables, "appliances_real", Project(frame, available_columns))

\* ApplianceDataPipeline.save_to_database on the tables of open_efficiency_index.db
SampleSaveToDatabase(tables, frame, category) ==
    ToSqlReplace(tables, ScoredTable(category), frame)

\* the classes of columns by the kind of cell they hold
TextCols == {"manufacturer", "category", "efficiency_rating", "data_source", "Brand Name"}
KeyCols == {"model_number", "Model Number"}
PlainCols == {"fetch_date", "energy_star_certified"}

\* pd.isna(value) of a cell of column c
IsNa(c, value) ==
    CASE c \in TextCols -> value = NaNStr
      [] c \in KeyCols -> value = NaNModel
      [] c \in PlainCols -> FALSE
      [] OTHER -> value = NaN

JsonNull == <<"null">>

\* export_to_json: df.to_dict('records') with every NaN replaced by None
export_to_json(frame) ==
    [frame EXCEPT
        !.rows = [i \in 1..Len(frame.rows) |->
                    [c \in frame.cols |-> IF IsNa(c, frame.rows[i][c]) THEN JsonNull
                                          ELSE frame.rows[i][c]] @@ <<>>] \o <<>>]

\* the documents fetch_doe_compliance_data returns when the request succeeds
DoeDocuments ==
    Frame({"document_id", "title", "category"},
          <<[c \in {"document_id", "title", "category"} |-> "doc"] @@ <<>> >>)

\* ------------------------------------------------------- the pipeline runs
\* pc: "idle"     no run_full_pipeline call is active
\*     "loop"     at the head of `for category in ...`
\*     "fetched", "parsed" / "cleaned", "scored", "saved": process_category has
\*                 completed that step for Head(queue)

\* the columns of the CSV of a category
RawSchema(category) ==
    {"Brand Name", "Model Number",
     RawCols(category)[1], RawCols(category)[2], RawCols(category)[3]}
AbsentOf(category) == {p[2] : p \in {q \in absent : q[1] = category}}

\* the steps of process_category that do I/O: the download, the two to_sql calls
\* and the JSON file of the real pipeline; the request, the CSV of the
\* specifications, to_sql and the summary files of the sample pipeline
FaultSteps(p) ==
    IF p = "real" THEN {"fetch", "save", "unified", "export"}
    ELSE {"fetch", "parse", "save", "summary"}
FaultSets(p) ==
    {F \in SUBSET (Categories \X FaultSteps(p)) : Cardinality(F) <= MaxFaults}

\* sources whose rows have defects: each defect alone, and among sound rows
DefectSources ==
    {<<k>> : k \in DefectKinds} \cup {<<1, k, 3>> : k \in DefectKinds}
        \cup {<<7, 9>>, <<10, 10>>, <<1, 5, 9>>}
\* one column missing from the CSV of one category, or none
AbsentChoices ==
    {{}} \cup UNION {{{<<c, col>>} : col \in RawSchema(c)} : c \in Categories}

\* the environments of a behaviour: every short source of sound rows; every
\* source with defects, with or without a missing column; and failing I/O on a
\* source with a defect
Environments ==
    [pipe : {"real"}, source : SeqsUpTo(MaxRows), absent : {{}}, faults : {{}}]
    \cup [pipe : {"sample"}, source : [1..SampleCount -> Kinds],
          absent : {{}}, faults : {{}}]
    \cup [pipe : {"real"}, source : DefectSources, absent : AbsentChoices, faults : {{}}]
    \cup [pipe : {"real"}, source : {<<1, 7, 3>>},
          absent : {{}, {<<Dishwashers, "Brand Name">>}}, faults : FaultSets("real")]
    \cup [pipe : {"sample"}, source : {[i \in 1..SampleCount |-> ((i - 1) % 4) + 1]},
          absent : {{}}, faults : FaultSets("sample")]

Init ==
    /\ sc = ScOff /\ band = BandOff /\ api = ApiOff
    /\ \E e \in Environments :
        pipe = e.pipe /\ source = e.source /\ absent = e.absent /\ faults = e.faults
    /\ pc = "idle" /\ queue = <<>> /\ data = EmptyFrame /\ results = <<>> /\ runs = 0
    /\ db = NoTables
    /\ files = <<>>
    /\ log = <<>> /\ hist = <<>> /\ before = [db |-> NoTables, files |-> <<>>]

\* datetime.now().isoformat() during run number runs
Now == <<"now", runs>>

\* a logger call: level, the text before the first placeholder, the category and
\* the count the message names (-1: none), and the text of the exception it names
Entry(level, msg, category, n, exc) ==
    [level |-> level, msg |-> msg, category |-> category, n |-> n, exc |-> exc]

\* str(e) of the exception a failing I/O step raises
IoError(step) ==
    CASE step = "fetch" -> "HTTPError"
      [] step \in {"save", "unified"} -> "unable to open database file"
      [] OTHER -> "Permission denied"

Faulty(step) == <<Head(queue), step>> \in faults

\* process_category raises at step with an exception of text exc: the except
\* clause of run_full_pipeline logs it and the loop goes on to the next category
FailAborts(step, exc, before_it) ==
    /\ pc' = "loop" /\ queue' = <<>> /\ data' = EmptyFrame
    /\ log' = log \o before_it
    /\ hist' = Append(hist, <<Head(queue), step, "failed">>)
    /\ UNCHANGED results
Fail(step, exc, before_it) ==
    /\ pc' = "loop" /\ queue' = Tail(queue) /\ data' = EmptyFrame
    /\ log' = log \o before_it \o
                <<Entry("error", IF pipe = "real" THEN "Failed to process" ELSE "Failed",
                        Head(queue), -1, exc)>>
    /\ hist' = Append(hist, <<Head(queue), step, "failed">>)
    /\ UNCHANGED results

\* a step of process_category returned
Pass(step, next_pc, frame, entries) ==
    /\ pc' = next_pc /\ data' = frame
    /\ log' = log \o entries
    /\ hist' = Append(hist, <<Head(queue), step, "ok">>)
    /\ UNCHANGED <<queue, results>>

\* run_full_pipeline is called: results = {}
Start(categories) ==
    /\ pc = "idle" /\ runs < MaxRuns
    /\ pc' = "loop" /\ queue' = categories /\ results' = <<>> /\ runs' = runs + 1
    /\ log' = <<>> /\ hist' = <<>> /\ before' = [db |-> db, files |-> files]
    /\ UNCHANGED <<env, data, db, files>>

\* the loop is over: return results
Return ==
    /\ pc = "loop" /\ queue = <<>>
    /\ pc' = "idle"
    /\ UNCHANGED <<env, queue, data, results, db, files, runs, log, hist, before>>

\* RealApplianceDataPipeline.run_full_pipeline is called
RealStart == pipe = "real" /\ Start(energystar_apis)

\* 1. raw_data = self.fetch_energystar_data(category): the download fails and the
\* exception is logged and raised again, or the CSV is read
RealFetch ==
    /\ pipe = "real" /\ pc = "loop" /\ queue # <<>>
    /\ IF Faulty("fetch")
       THEN Fail("fetch", IoError("fetch"),
                 <<Entry("error", "Failed to fetch real", Head(queue), -1, IoError("fetch"))>>)
       ELSE LET raw == WithoutCols(fetch_energystar_data(Head(queue), source),
                                   AbsentOf(Head(queue)))
            IN  Pass("fetch", "fetched", raw,
                     <<Entry("info", "Successfully loaded", Head(queue), Len(raw.rows), "")>>)
    /\ UNCHANGED <<env, db, files, runs, before>>

\* 2. cleaned_data = self.clean_energystar_data(raw_data, category)
RealClean ==
    /\ pipe = "real" /\ pc = "fetched"
    /\ LET cleaned == clean_energystar_data(data, Head(queue), Now)
       IN  IF cleaned.raised # "none" THEN Fail("clean", cleaned.raised, <<>>)
           ELSE Pass("clean", "cleaned", cleaned,
                     <<Entry("info", "Cleaned", Head(queue), Len(cleaned.rows), "")>>)
    /\ UNCHANGED <<env, db, files, runs, before>>

\* 3. scored_data = self.calculate_efficiency_scores(cleaned_data, category)
RealScore ==
    /\ pipe = "real" /\ pc = "cleaned"
    /\ LET scored == RealCalculateEfficiencyScores(data, Head(queue), RealTariff)
           said == <<Entry("info", "Calculating efficiency scores for", Head(queue),
                           Len(data.rows), "")>>
       IN  IF scored.raised # "none" THEN Fail("score", scored.raised, said)
           ELSE Pass("score", "scored", scored, said)
    /\ UNCHANGED <<env, db, files, runs, before>>

\* 4. self.save_to_database(scored_data, category): each to_sql call commits what
\* it wrote, so the category table stays replaced when the second call fails
RealSave ==
    /\ pipe = "real" /\ pc = "scored"
    /\ LET said == <<Entry("info", "Saving", Head(queue), Len(data.rows), "")>>
           first == ToSqlReplace(db[RealDb], RealTable(Head(queue)), data)
           saved == RealSaveToDatabase(db[RealDb], data, Head(queue))
       IN  IF Faulty("save")
           THEN Fail("save", IoError("save"), said) /\ UNCHANGED db
           ELSE IF Faulty("unified")
           THEN /\ Fail("unified", IoError("unified"), said)
                /\ db' = [db EXCEPT ![RealDb] = first.tables]
           ELSE IF saved.raised # "none"
           THEN /\ Fail("unified", saved.raised, said)
                /\ db' = [db EXCEPT ![RealDb] = saved.tables]
           ELSE /\ Pass("save", "saved", data,
                        said \o <<Entry("info", "Saved real", Head(queue), -1, "")>>)
                /\ db' = [db EXCEPT ![RealDb] = saved.tables]
    /\ UNCHANGED <<env, files, runs, before>>

\* 5. self.export_to_json(scored_data, category); return scored_data; and
\* results[category] = ... in run_full_pipeline
RealExport ==
    /\ pipe = "real" /\ pc = "saved"
    /\ IF Faulty("export")
       THEN Fail("export", IoError("export"), <<>>) /\ UNCHANGED files
       ELSE /\ files' = (Head(queue) :> export_to_json(data)) @@ files
            /\ results' = Append(results, Head(queue))
            /\ pc' = "loop" /\ queue' = Tail(queue) /\ data' = EmptyFrame
            /\ log' = Append(log, Entry("info", "Exported", Head(queue), Len(data.rows), ""))
            /\ hist' = Append(hist, <<Head(queue), "export", "ok">>)
    /\ UNCHANGED <<env, db, runs, before>>

RealReturn == pipe = "real" /\ Return

\* ApplianceDataPipeline.run_full_pipeline is called
SampleStart == pipe = "sample" /\ Start(appliance_categories)

\* 1. raw_data = self.fetch_doe_compliance_data(category): the documents, or an
\* empty frame when the request fails or answers another status than 200; the
\* failure is logged and nothing is raised
SampleFetch ==
    /\ pipe = "sample" /\ pc = "loop" /\ queue # <<>>
    /\ pc' = "fetched"
    /\ IF Faulty("fetch")
       THEN /\ data' = EmptyFrame
            /\ log' = Append(log, Entry("error", "Error fetching DOE data", "", -1,
                                        IoError("fetch")))
            /\ hist' = Append(hist, <<Head(queue), "fetch", "failed">>)
       ELSE /\ data' = DoeDocuments
            /\ log' = Append(log, Entry("info", "Retrieved", Head(queue),
                                        Len(DoeDocuments.rows), ""))
            /\ hist' = Append(hist, <<Head(queue), "fetch", "ok">>)
    /\ UNCHANGED <<env, queue, results, db, files, runs, before>>

\* 2. specifications = self.parse_appliance_specifications(category, raw_data):
\* the raw data is not read; generate_sample_data reseeds the generator, so every
\* call for a category returns the same rows, which are written to a CSV file
SampleParse ==
    /\ pipe = "sample" /\ pc = "fetched"
    /\ IF Faulty("parse") THEN Fail("parse", IoError("parse"), <<>>)
       ELSE LET sample_data == generate_sample_data(Head(queue), source)
            IN  Pass("parse", "parsed", sample_data,
                     <<Entry("info", "Saved", Head(queue), Len(sample_data.rows), "")>>)
    /\ UNCHANGED <<env, db, files, runs, before>>

\* 3. scored_data = self.calculate_efficiency_scores(specifications, category)
SampleScore ==
    /\ pipe = "sample" /\ pc = "parsed"
    /\ LET scored == SampleCalculateEfficiencyScores(data, Head(queue), SampleTariff)
       IN  IF scored.raised # "none" THEN Fail("score", scored.raised, <<>>)
           ELSE Pass("score", "scored", scored, <<>>)
    /\ UNCHANGED <<env, db, files, runs, before>>

\* 4. self.save_to_database(scored_data, category)
SampleSave ==
    /\ pipe = "sample" /\ pc = "scored"
    /\ IF Faulty("save") THEN Fail("save", IoError("save"), <<>>) /\ UNCHANGED db
       ELSE /\ db' = [db EXCEPT
                        ![IndexDb] = SampleSaveToDatabase(@, data, Head(queue)).tables]
            /\ Pass("save", "saved", data,
                    <<Entry("info", "Saved", Head(queue), Len(data.rows), "")>>)
    /\ UNCHANGED <<env, files, runs, before>>

\* 5. self.generate_category_summary(scored_data, category) writes the complete
\* data as CSV; return scored_data; and results[category] = ...
SampleSummary ==
    /\ pipe = "sample" /\ pc = "saved"
    /\ IF Faulty("summary")
       THEN Fail("summary", IoError("summary"), <<>>) /\ UNCHANGED files
       ELSE /\ files' = (Head(queue) :> data) @@ files
            /\ results' = Append(results, Head(queue))
            /\ pc' = "loop" /\ queue' = Tail(queue) /\ data' = EmptyFrame
            /\ log' = log \o <<Entry("info", "Generated summary analysis for", Head(queue), -1, ""),
                               Entry("info", "Completed", Head(queue), -1, "")>>
            /\ hist' = Append(hist, <<Head(queue), "summary", "ok">>)
    /\ UNCHANGED <<env, db, runs, before>>

SampleReturn == pipe = "sample" /\ Return

Next ==
    \/ RealStart \/ RealFetch \/ RealClean \/ RealScore \/ RealSave \/ RealExport
    \/ RealReturn
    \/ SampleStart \/ SampleFetch \/ SampleParse \/ SampleScore \/ SampleSave
    \/ SampleSummary \/ SampleReturn

Spec == Init /\ [][Next]_vars

\* a step is possible exactly in these states: every action is guarded by pc
\* alone and has an outcome whatever the data, and a further call needs
\* runs < MaxRuns
Running == pc # "idle" \/ runs < MaxRuns

\* a call of run_full_pipeline runs on, the interpreter takes every step: weak
\* fairness of Next, written with Running for ENABLED <<Next>>_vars
FairSpec == Spec /\ ([]<>(~Running) \/ []<><<Next>>_vars)

\* ------------------------------------------------- properties of the runs
\* the tables of the file the running pipeline writes
Tables == IF pipe = "real" THEN db[RealDb] ELSE db[IndexDb]
TableOf(category) == IF pipe = "real" THEN RealTable(category) ELSE ScoredTable(category)
Persisted == {c \in Categories : TableOf(c) \in DOMAIN Tables}
TableRows(category) == Tables[TableOf(category)].rows

\* 100 x (average rank of row i by true efficiency) / n over the rows of a table,
\* rounded to one decimal
PercentileValue(rows, i) ==
    LET valid == {j \in 1..Len(rows) : ~IsNaN(rows[j]["true_efficiency"])}
        less == Cardinality({j \in valid :
                    Lt(rows[j]["true_efficiency"], rows[i]["true_efficiency"])})
        equal == Cardinality({j \in valid :
                    rows[j]["true_efficiency"] = rows[i]["true_efficiency"]})
    IN  Round(Rat(100 * (2 * less + equal + 1), 2 * Cardinality(valid)), 1)

LatestFrame(category) ==
    IF pipe = "real"
    THEN RealCalculateEfficiencyScores(
             clean_energystar_data(
                 WithoutCols(fetch_energystar_data(category, source), AbsentOf(category)),
                 category, Now),
             category, RealTariff)
    ELSE SampleCalculateEfficiencyScores(
             generate_sample_data(category, source), category, SampleTariff)

\* the rows of the unified table a run writes for the categories it saved, a
\* column of the table that a category's frame lacks being NULL
RECURSIVE UnifiedRows(_)
UnifiedRows(saved) ==
    IF saved = <<>> THEN <<>>
    ELSE LET frame == LatestFrame(Head(saved))
             columns == Tables["appliances_real"].cols
         IN  [i \in 1..Len(frame.rows) |->
                [c \in columns |-> IF c \in frame.cols THEN frame.rows[i][c]
                                   ELSE SqlNull]]
             \o UnifiedRows(Tail(saved))

\* the categories whose save_to_database call returned in the current run
SavedNow ==
    LET Ok(h) == h[2] = "save" /\ h[3] = "ok"
        oks == SelectSeq(hist, Ok)
    IN  [k \in 1..Len(oks) |-> oks[k][1]]

\* C9: once a run has returned, every table save_to_database wrote for a category
\* the run saved holds exactly the rows of that run, and the unified table
\* appliances_real holds exactly the rows of that run, none from an earlier run.
C9_TablesHoldLatestRun ==
    (pc = "idle" /\ runs > 0) =>
        /\ \A k \in 1..Len(SavedNow) :
            TableRows(SavedNow[k]) = LatestFrame(SavedNow[k]).rows
        /\ (pipe = "real" /\ SavedNow # <<>>) =>
            /\ "appliances_real" \in DOMAIN Tables
            /\ Tables["appliances_real"].rows = UnifiedRows(SavedNow)

\* C10: no two rows of a category table share a model_number.
C10_ModelNumberUnique ==
    \A c \in Persisted : \A i, j \in 1..Len(TableRows(c)) :
        TableRows(c)[i]["model_number"] = TableRows(c)[j]["model_number"] => i = j

\* ------------------------------------------------ properties: failing steps
\* process_category raised for the category in the current run (a failed request
\* of the sample pipeline raises nothing)
Failed(category) ==
    \E k \in 1..Len(hist) :
        /\ hist[k][1] = category /\ hist[k][3] = "failed"
        /\ ~(pipe = "sample" /\ hist[k][2] = "fetch")
\* the step at which it raised
FailedStep(category) ==
    hist[CHOOSE k \in 1..Len(hist) :
            /\ hist[k][1] = category /\ hist[k][3] = "failed"
            /\ ~(pipe = "sample" /\ hist[k][2] = "fetch")][2]

\* what is stored for a category in the tables of a file and in the exported
\* files: its table, its rows of the unified table and its export
RowsOf(rows, category) ==
    LET Mine(r) == r["category"] = category
    IN  SelectSeq(rows, Mine)
Stored(category, tables, exported) ==
    [table |-> IF TableOf(category) \in DOMAIN tables
               THEN {tables[TableOf(category)]} ELSE {},
     unified |-> IF "appliances_real" \in DOMAIN tables
                 THEN RowsOf(tables["appliances_real"].rows, category) ELSE <<>>,
     export |-> IF category \in DOMAIN exported THEN {exported[category]} ELSE {}]
StoredNow(category) == Stored(category, Tables, files)
StoredBefore(category) ==
    Stored(category, before.db[IF pipe = "real" THEN RealDb ELSE IndexDb], before.files)

\* C11: when process_category raises for a category, what is stored for the
\* category (its table, its rows of appliances_real, its export) is what was
\* stored when the run started.
C11_FailedCategoryUntouched ==
    \A c \in Categories : Failed(c) => StoredNow(c) = StoredBefore(c)

\* the categories process_category was called for in the current run, in order
Attempts ==
    LET First(h) == h[2] = "fetch"
        fetches == SelectSeq(hist, First)
    IN  [k \in 1..Len(fetches) |-> fetches[k][1]]
Configured == IF pipe = "real" THEN energystar_apis ELSE appliance_categories
InResults(category) == \E k \in 1..Len(results) : results[k] = category
\* the last n elements of a sequence
Last(seq, n) == SubSeq(seq, Len(seq) - n + 1, Len(seq))
\* the rows of the latest frame of a category are the last of its rows in
\* appliances_real
InUnified(category) ==
    /\ "appliances_real" \in DOMAIN Tables
    /\ LET mine == RowsOf(Tables["appliances_real"].rows, category)
           rows == UnifiedRows(<<category>>)
       IN  Len(rows) <= Len(mine) /\ Last(mine, Len(rows)) = rows
\* what export_to_json or generate_category_summary wrote for the category
Exported(category) ==
    IF pipe = "real" THEN export_to_json(LatestFrame(category)) ELSE LatestFrame(category)

\* once run_full_pipeline has returned: every category was attempted once, in the
\* configured order, and every category that did not raise is in the results
\* with its table, its unified rows and its export written
Isolated ==
    (pc = "idle" /\ runs > 0) =>
        /\ Attempts = Configured
        /\ \A c \in Categories :
            ~Failed(c) =>
                /\ InResults(c)
                /\ TableOf(c) \in DOMAIN Tables
                /\ TableRows(c) = LatestFrame(c).rows
                /\ pipe = "real" => InUnified(c)
                /\ c \in DOMAIN files /\ files[c] = Exported(c)
        /\ \A c \in Categories : Failed(c) => ~InResults(c)

\* C12: whatever categories raise and at whatever step, run_full_pipeline
\* returns, has attempted every category once in the configured order, and every
\* category that did not raise is processed, persisted and in the results.
C12_FailureIsolation == [](Isolated) /\ ((pc = "loop") ~> (pc = "idle"))

\* a run has returned in which a category raised and a later one is in the results
C12_Witness ==
    /\ pc = "idle" /\ runs > 0
    /\ \E i, j \in 1..Len(Configured) :
        i < j /\ Failed(Configured[i]) /\ InResults(Configured[j])

\* the source fetch of the category failed in the current run
FetchFailed(category) == \E k \in 1..Len(hist) : hist[k] = <<category, "fetch", "failed">>
\* a step of process_category was entered for the category in the current run
Entered(category, step) ==
    \E k \in 1..Len(hist) : hist[k][1] = category /\ hist[k][2] = step

\* C13: a category whose fetch failed is skipped in both pipelines: nothing is
\* scored for it, its table is not written in this run and it is not in the
\* results.
C13_FetchFailureSkips ==
    \A c \in Categories :
        FetchFailed(c) =>
            /\ ~Entered(c, "score") /\ ~Entered(c, "save")
            /\ StoredNow(c).table = StoredBefore(c).table
            /\ ~InResults(c)

\* what a run exposes for a category: whether it is in the returned results, and
\* the kinds of error reported for it (level and message of the logger call; the
\* text of the exception is whatever the library that raised put there)
Exposed(category) ==
    [returned |-> InResults(category),
     reported |-> {<<log[k].level, log[k].msg>> :
                    k \in {j \in 1..Len(log) :
                            log[j].category = category /\ log[j].level = "error"}}]

\* C14: a category whose save_to_database failed is exposed differently from a
\* category whose fetch or validation (cleaning, scoring) failed.
C14_StorageFailureDistinct ==
    \A c1, c2 \in Categories :
        (/\ Failed(c1) /\ FailedStep(c1) \in {"fetch", "clean", "score"}
         /\ Failed(c2) /\ FailedStep(c2) \in {"save", "unified"})
            => Exposed(c1) # Exposed(c2)

\* ------------------------------------------- properties: defective records
\* the CSV of a category as the current environment publishes it
RawFrame(category) ==
    WithoutCols(fetch_energystar_data(category, source), AbsentOf(category))
\* the CSV columns the formula of the category reads
FormulaCols(category) ==
    CASE category = Refrigerators ->
            {"Annual Energy Use (kWh/yr)", "Capacity (Total Volume) (ft3)"}
      [] category = ClothesWashers -> {"Integrated Modified Energy Factor (IMEF)"}
      [] category = Dishwashers ->
            {"Annual Energy Use (kWh/yr)", "Capacity - Maximum Number of Place Settings"}
      [] category = WaterHeaters -> {"Uniform Energy Factor (UEF)"}
\* the record has its brand, its model number and a number in every column the
\* formula reads
SoundRow(category, row) ==
    /\ row["Brand Name"] # NaNStr /\ row["Model Number"] # NaNModel
    /\ \A col \in FormulaCols(category) : row[col] # NaN /\ row[col] # TextCell
\* the CSV cells of the rows of a frame
RawCells(category, rows) ==
    [i \in 1..Len(rows) |-> [col \in RawSchema(category) |-> rows[i][col]]]
SoundCells(category) ==
    LET Sound(row) == SoundRow(category, row)
    IN  RawCells(category, SelectSeq(RawFrame(category).rows, Sound))
\* the frame holds exactly the sound records of the CSV, each with a score
HoldsSound(category, frame) ==
    /\ RawCells(category, frame.rows) = SoundCells(category)
    /\ frame.rows # <<>> =>
        /\ "open_efficiency_score" \in frame.cols
        /\ \A i \in 1..Len(frame.rows) : ~IsNaN(frame.rows[i]["open_efficiency_score"])

\* a column the formula of the category does not read holds text
TextElsewhere(category) ==
    \E i \in 1..Len(RawFrame(category).rows) :
        \E col \in RawSchema(category)
                        \ (FormulaCols(category) \cup {"Brand Name", "Model Number"}) :
            RawFrame(category).rows[i][col] = TextCell

RawCount(category) == Len(RawFrame(category).rows)
Accepted(category) ==
    LET Keyed(row) == row["Brand Name"] # NaNStr /\ row["Model Number"] # NaNModel
    IN  SelectSeq(RawFrame(category).rows, Keyed)
LackingKeys(category) == RawCount(category) - Len(Accepted(category))
TestedCol(category) ==
    CASE category \in {Refrigerators, Dishwashers} -> "Annual Energy Use (kWh/yr)"
      [] category = ClothesWashers -> "Integrated Modified Energy Factor (IMEF)"
      [] category = WaterHeaters -> "Uniform Energy Factor (UEF)"
DroppedByScoring(category) ==
    IF TestedCol(category) \in AbsentOf(category) THEN 0
    ELSE Cardinality({i \in 1..Len(Accepted(category)) :
            \E col \in FormulaCols(category) :
                Accepted(category)[i][col] \in {NaN, TextCell}})
\* the count clean_energystar_data logged for the category in the current run
Reported(category) ==
    {log[k].n : k \in {j \in 1..Len(log) :
                        log[j].category = category /\ log[j].msg = "Cleaned"}}

Raised(category) ==
    {log[k].exc : k \in {j \in 1..Len(log) :
                          log[j].category = category /\ log[j].level = "error"}}

\* C17: when a column the code expects is absent from the CSV of a category,
\* clean_energystar_data and calculate_efficiency_scores complete without
\* raising: the category never fails at either with a KeyError.
C17_SchemaMismatchNoException ==
    pipe = "real" =>
        \A c \in Categories :
            AbsentOf(c) # {} =>
                ~(/\ Failed(c) /\ FailedStep(c) \in {"clean", "score"}
                  /\ "KeyError" \in Raised(c))

\* a cell that holds a number: neither NULL nor NaN nor an infinity
Defined(frame, row, col) ==
    /\ col \in frame.cols
    /\ row[col] # SqlNull /\ ~IsNaN(row[col]) /\ row[col][2] # 0

\* C18: every row of a persisted category table has a true_efficiency and an
\* open_efficiency_score that are numbers: not missing, not NULL, not NaN, not
\* infinite.
C18_PersistedRowsScored ==
    \A c \in Persisted :
        \A i \in 1..Len(TableRows(c)) :
            /\ Defined(Tables[TableOf(c)], TableRows(c)[i], "true_efficiency")
            /\ Defined(Tables[TableOf(c)], TableRows(c)[i], "open_efficiency_score")

\* the true efficiency the specification gives for a persisted row, and the
\* columns it reads; the annual energy of a dishwasher is annual_energy_use_kwh
\* in the real pipeline and the derived annual_energy_kwh in the sample pipeline
DishwasherEnergy == IF pipe = "real" THEN "annual_energy_use_kwh" ELSE "annual_energy_kwh"
SpecifiedInputs(category) ==
    CASE category = Refrigerators -> {"adjusted_volume_cubic_feet", "annual_energy_use_kwh"}
      [] category = Dishwashers -> {"place_settings", DishwasherEnergy}
      [] category = WaterHeaters -> {"uniform_energy_factor"}
      [] category = ClothesWashers ->
            {"capacity_cubic_feet", "integrated_modified_energy_factor"}
SpecifiedEfficiency(category, row) ==
    CASE category = Refrigerators ->
            Div(row["adjusted_volume_cubic_feet"], row["annual_energy_use_kwh"])
      [] category = Dishwashers ->
            Div(row["place_settings"], Div(row[DishwasherEnergy], Num(280)))
      [] category = WaterHeaters -> row["uniform_energy_factor"]
      [] category = ClothesWashers ->
            Div(row["capacity_cubic_feet"],
                Div(Div(Num(300), row["integrated_modified_energy_factor"]), Num(300)))

\* C19: in both pipelines the true_efficiency of every persisted row is the
\* specified formula of the category applied to the fields of the row.
C19_FormulasAsSpecified ==
    \A c \in Persisted :
        ({"true_efficiency"} \cup SpecifiedInputs(c) \subseteq Tables[TableOf(c)].cols) =>
            \A i \in 1..Len(TableRows(c)) :
                TableRows(c)[i]["true_efficiency"] = SpecifiedEfficiency(c, TableRows(c)[i])

\* the rows of the persisted water heater table of the real pipeline when the
\* CSV has the therms column: those with a therms value are gas water heaters,
\* those without are the electric ones, whose CSV record gives ElectricKwh
GasTable ==
    IF pipe = "real" /\ WaterHeaters \in Persisted
       /\ "annual_therms_natural_gas" \in Tables[TableOf(WaterHeaters)].cols
    THEN TableRows(WaterHeaters) ELSE <<>>
GasBilled(row) ==
    /\ \A r \in Regions :
        /\ row[AnnualCostCol(r)] = Mul(row["annual_therms_natural_gas"], RealTariff.gas[r])
        /\ row[AnnualCo2Col(r)] = Mul(row["annual_therms_natural_gas"], gas_carbon_intensity)
    /\ row["annual_energy_use_kwh"] = Mul(row["annual_therms_natural_gas"], ThermToKwh)
    /\ "true_efficiency" \in Tables[TableOf(WaterHeaters)].cols =>
            row["true_efficiency"] = row["uniform_energy_factor"]
ElectricBilled(row) ==
    \A r \in Regions :
        /\ row[AnnualCostCol(r)] = Div(Mul(ElectricKwh, RealTariff.elec[r]), Num(100))
        /\ row[AnnualCo2Col(r)] = Mul(ElectricKwh, RealTariff.carbon[r])

\* C20: a gas water heater is billed on its therms at the gas price and 11.7 lbs
\* of CO2 a therm, with annual_energy_use_kwh = therms x 29.3 and true_efficiency
\* = uniform_energy_factor, and an electric water heater of the same table is
\* billed on its kWh at the electricity price and the grid carbon intensity.
C20_GasAndElectricBilling ==
    \A i \in 1..Len(GasTable) :
        IF IsNaN(GasTable[i]["annual_therms_natural_gas"])
        THEN ElectricBilled(GasTable[i])
        ELSE GasBilled(GasTable[i])

\* ------------------------------------------------------------ the query layer
\* api.phase    "idle": no call is being served; "responded": a call returned
\* api.handler, api.request: the call that returned last
\* api.status, api.body: its response (status 500 where the exception is left
\*              to the framework); api.opened, api.closed: the connections the
\*              call opened and closed
\* db[IndexDb]: the tables of the database file the handlers read
\* files:       the JSON files export_category and export_stats have written

\* the states a <category>_scored table is read in: not there, holding no row,
\* as save_to_database wrote it, without the CO2 columns (the state the search
\* handlers test with PRAGMA table_info), and with NULL regional values
TableStates == {"absent", "empty", "written", "no_co2", "null_regional"}

\* the kinds process_category draws, one after the other
ApiDraws == [i \in 1..SampleCount |-> ((i - 1) % 4) + 1]

WrittenTable(category) ==
    LET frame == SampleCalculateEfficiencyScores(generate_sample_data(category, ApiDraws),
                                                 category, SampleTariff)
    IN  SampleSaveToDatabase(<<>>, frame, category).tables[ScoredTable(category)]

Co2Cols == UNION {{AnnualCo2Col(r), LifetimeCo2Col(r)} : r \in Regions}

TableIn(state, category) ==
    LET written == WrittenTable(category)
    IN  CASE state = "written" -> written
          [] state = "empty" -> [written EXCEPT !.rows = <<>>]
          [] state = "no_co2" -> WithoutCols(written, Co2Cols)
          [] state = "null_regional" ->
                [written EXCEPT
                    !.rows = [i \in 1..Len(written.rows) |->
                                [c \in written.cols |->
                                    IF c \in RegionalCols THEN SqlNull
                                    ELSE written.rows[i][c]] @@ <<>>] \o <<>>]

\* the tables of a database file whose <category>_scored tables are in the
\* given states
ApiTables(states) ==
    LET there == {c \in Categories : states[c] # "absent"}
        names == {ScoredTable(c) : c \in there}
    IN  [n \in names |->
            LET c == CHOOSE x \in there : ScoredTable(x) = n
            IN  TableIn(states[c], c)] @@ <<>>

\* the databases the handlers are called on: every table in the same state, or
\* the first table of the fixed order in any state and the three others all
\* written or all absent
ApiDatabases ==
    {ApiTables(s) :
        s \in {t \in [Categories -> TableStates] :
                \/ \A c \in Categories : t[c] = t[Refrigerators]
                \/ \E k \in {"written", "absent"} :
                    \A c \in Categories \ {Refrigerators} : t[c] = k}}

\* ---------------------------------------------------------------- SQL
IsNull(v) == v = SqlNull

\* ORDER BY open_efficiency_score DESC: NULL sorts below every number, rows
\* that tie keep the order of the table
ScoreAbove(a, b) ==
    LET x == a["open_efficiency_score"]
        y == b["open_efficiency_score"]
    IN  IF IsNull(x) THEN FALSE ELSE IF IsNull(y) THEN TRUE ELSE Lt(y, x)

OrderByScoreDesc(rows) ==
    LET n == Len(rows)
        Place(i) == Cardinality({j \in 1..n :
                        \/ ScoreAbove(rows[j], rows[i])
                        \/ ~ScoreAbove(rows[i], rows[j]) /\ j < i}) + 1
    IN  [k \in 1..n |-> rows[CHOOSE i \in 1..n : Place(i) = k]] \o <<>>

\* LIMIT n: a negative n is no limit at all
SqlLimit(rows, n) ==
    IF n < 0 \/ n >= Len(rows) THEN rows ELSE SubSeq(rows, 1, n)

\* column LIKE '%text%' on the manufacturers of the model (ASCII letters match
\* whatever their case)
ManufacturerLike(value, text) ==
    CASE text = "Whirlpool" -> value = "Whirlpool"
      [] text = "ge" -> value = "GE"
      [] text = "o" -> value \in {"Whirlpool", "Bosch"}

\* model_number LIKE '%text%': text is a whole model number or its first part
NoText == <<>>
ModelLike(value, text) ==
    IF Len(text) = 1 THEN text[1] = "Model-" ELSE value = text

\* SELECT columns FROM table: OperationalError when the table or a column is
\* not there
Readable(tables, name, columns) ==
    name \in DOMAIN tables /\ columns \subseteq tables[name].cols

\* dict(row) of a row of SELECT columns
Selected(row, columns) == [c \in columns |-> row[c]] @@ <<>>

\* COUNT(*), AVG(open_efficiency_score) and
\* COUNT(CASE WHEN energy_star_certified = 1 THEN 1 END) of a table
RECURSIVE ScoreSum(_)
ScoreSum(rows) ==
    IF rows = <<>> THEN Num(0)
    ELSE Add(Head(rows)["open_efficiency_score"], ScoreSum(Tail(rows)))

Aggregate(table) ==
    LET scored == SelectSeq(table.rows,
                            LAMBDA r : ~IsNull(r["open_efficiency_score"]))
        starred == SelectSeq(table.rows, LAMBDA r : r["energy_star_certified"] = TRUE)
    IN  [count |-> Len(table.rows),
         avg_score |-> IF scored = <<>> THEN SqlNull
                       ELSE Div(ScoreSum(scored), Num(Len(scored))),
         energy_star_count |-> Len(starred)]

\* ------------------------------------------------------------ the handlers
\* a request argument that was not supplied
NoArg == <<>>
Arg(value, default) == IF value = NoArg THEN default ELSE value

Response(status, body, opened, closed) ==
    [status |-> status, body |-> body, opened |-> opened, closed |-> closed]

\* get_db_connection of efficiency_api.py, index.py and db_utils.py on the
\* database file that is there: a connection to its tables
get_db_connection(tables) == tables

SearchCols ==
    {"manufacturer", "model_number", "open_efficiency_score", "efficiency_rating",
     "energy_star_certified", "annual_cost_us_average"}

\* PRAGMA table_info(table_name): no row when the table is not there
has_co2_column(tables, table_name) ==
    table_name \in DOMAIN tables
        /\ "annual_co2_lbs_us_average" \in tables[table_name].cols

\* WHERE 1=1 [AND manufacturer LIKE ?] [AND model_number LIKE ?]
\*   AND open_efficiency_score BETWEEN ? AND ? [AND energy_star_certified = 1]
SearchWhere(row, manufacturer, model, min_score, max_score, energy_star_only) ==
    /\ manufacturer # "" => ManufacturerLike(row["manufacturer"], manufacturer)
    /\ model # NoText => ModelLike(row["model_number"], model)
    /\ ~IsNull(row["open_efficiency_score"])
    /\ Le(min_score, row["open_efficiency_score"])
    /\ Le(row["open_efficiency_score"], max_score)
    /\ energy_star_only => row["energy_star_certified"] = TRUE

\* the SELECT of search_appliances and of handler: the chosen columns of the
\* rows that pass the WHERE, ORDER BY open_efficiency_score DESC LIMIT ?
SearchQuery(tables, table_name, columns, manufacturer, model, lo, hi, starred, limit) ==
    LET co2 == has_co2_column(tables, table_name)
        Matches(row) == SearchWhere(row, manufacturer, model, lo, hi, starred)
        Chosen(row) ==
            IF co2 THEN Selected(row, columns \cup {"annual_co2_lbs_us_average"})
            ELSE ("annual_co2_lbs_us_average" :> Num(0)) @@ Selected(row, columns)
    IN  IF ~Readable(tables, table_name, columns) THEN [raised |-> "OperationalError"]
        ELSE LET found == SqlLimit(OrderByScoreDesc(SelectSeq(tables[table_name].rows,
                                                              Matches)), limit)
             IN  [raised |-> "none",
                  rows |-> [i \in 1..Len(found) |-> Chosen(found[i])] \o <<>>]

\* search_appliances of efficiency_api.py
search_appliances(tables, request) ==
    LET category == request.category
        min_score == Arg(request.min_score, Num(0))
        max_score == Arg(request.max_score, Num(100))
        energy_star_only == request.energy_star # ""
        limit == Arg(request.limit, <<50>>)[1]
        answer == SearchQuery(get_db_connection(tables), ScoredTable(category),
                              SearchCols \cup {"annual_energy_kwh"},
                              request.manufacturer, request.model, min_score, max_score,
                              energy_star_only, limit)
    IN  IF category = "" THEN Response(400, [error |-> "Category parameter required"], 0, 0)
        ELSE IF answer.raised # "none" THEN Response(500, [error |-> answer.raised], 2, 2)
        ELSE Response(200, [category |-> category, total_results |-> Len(answer.rows),
                            appliances |-> answer.rows], 2, 2)

\* handler of search.py
search_handler(tables, request) ==
    LET category == request.category
        min_score == Arg(request.min_score, Num(0))
        max_score == Arg(request.max_score, Num(100))
        energy_star_only == request.energy_star = "true"
        limit == Arg(request.limit, <<50>>)[1]
        answer == SearchQuery(get_db_connection(tables), ScoredTable(category),
                              SearchCols, request.manufacturer, request.model,
                              min_score, max_score, energy_star_only, limit)
    IN  IF category = "" THEN Response(400, [error |-> "Category parameter required"], 0, 0)
        ELSE IF answer.raised # "none" THEN Response(500, [error |-> answer.raised], 1, 1)
        ELSE Response(200, [category |-> category, total_results |-> Len(answer.rows),
                            appliances |-> answer.rows], 1, 1)

\* search of index.py: SELECT * ... WHERE 1=1 [AND manufacturer LIKE ?]
\* [AND open_efficiency_score >= ?] ORDER BY open_efficiency_score DESC LIMIT ?
index_search(tables, request) ==
    LET category == request.category
        manufacturer == request.manufacturer
        min_score == Arg(request.min_score, Num(0))
        limit == Arg(request.limit, <<20>>)[1]
        table_name == ScoredTable(category)
        conn == get_db_connection(tables)
        Matches(row) ==
            /\ manufacturer # "" => ManufacturerLike(row["manufacturer"], manufacturer)
            /\ Lt(Num(0), min_score) =>
                    /\ ~IsNull(row["open_efficiency_score"])
                    /\ Le(min_score, row["open_efficiency_score"])
    IN  IF category = "" THEN Response(400, [error |-> "Category is required"], 0, 0)
        ELSE IF ~Readable(conn, table_name, {"manufacturer", "open_efficiency_score"})
        THEN Response(500, [error |-> "OperationalError"], 1, 0)
        ELSE LET listed == SqlLimit(OrderByScoreDesc(SelectSeq(conn[table_name].rows,
                                                                Matches)), limit)
             IN  Response(200, [category |-> category, total_results |-> Len(listed),
                                appliances |-> listed], 1, 1)

\* get_top_performers of efficiency_api.py
get_top_performers(tables, category, limit) ==
    LET table_name == ScoredTable(category)
        conn == get_db_connection(tables)
        columns == SearchCols \cup {"annual_energy_kwh"}
        co2 == has_co2_column(conn, table_name)
        Chosen(row) ==
            IF co2 THEN Selected(row, columns \cup {"annual_co2_lbs_us_average"})
            ELSE ("annual_co2_lbs_us_average" :> Num(0)) @@ Selected(row, columns)
    IN  IF ~Readable(conn, table_name, columns)
        THEN Response(500, [error |-> "OperationalError"], 2, 2)
        ELSE LET found == SqlLimit(OrderByScoreDesc(conn[table_name].rows),
                                   Arg(limit, <<20>>)[1])
             IN  Response(200, [category |-> category,
                                top_performers |-> [i \in 1..Len(found) |->
                                                        Chosen(found[i])] \o <<>>], 2, 2)

\* round((energy_star_count / total_models) * 100, 1)
Percentage(part, whole) == Round(Mul(Div(Num(part), Num(whole)), Num(100)), 1)

\* the body of `for table in tables: try:` in get_categories and in
\* categories.handler: what is stored for the category, or the exception
CategoryEntry(tables, category) ==
    LET name == ScoredTable(category)
    IN  IF ~Readable(tables, name, {"open_efficiency_score", "energy_star_certified"})
        THEN [error |-> "OperationalError"]
        ELSE LET stats == Aggregate(tables[name])
             IN  IF IsNull(stats.avg_score) THEN [error |-> "TypeError"]
                 ELSE IF stats.count = 0 THEN [error |-> "ZeroDivisionError"]
                 ELSE [total_models |-> stats.count,
                       average_score |-> Round(stats.avg_score, 1),
                       energy_star_percentage |->
                            Percentage(stats.energy_star_count, stats.count)]

HasError(entry) == "error" \in DOMAIN entry

\* get_categories of efficiency_api.py: `except: pass`
get_categories(tables) ==
    LET conn == get_db_connection(tables)
        stored == {c \in Categories : ~HasError(CategoryEntry(conn, c))}
    IN  Response(200, [c \in stored |-> CategoryEntry(conn, c)] @@ <<>>, 1, 1)

\* handler of categories.py: the exception is stored as the entry
categories_handler(tables) ==
    LET conn == get_db_connection(tables)
    IN  Response(200, [c \in Categories |-> CategoryEntry(conn, c)], 1, 1)

\* the body of `for table in tables: try:` in get_database_stats and in
\* stats.handler
StatsEntry(tables, category) ==
    LET name == ScoredTable(category)
    IN  IF ~Readable(tables, name, {"open_efficiency_score", "energy_star_certified"})
        THEN [error |-> "OperationalError"]
        ELSE LET result == Aggregate(tables[name])
             IN  IF IsNull(result.avg_score) THEN [error |-> "TypeError"]
                 ELSE [total_models |-> result.count,
                       average_score |-> Round(result.avg_score, 1),
                       energy_star_models |-> result.energy_star_count]

RECURSIVE Total(_, _, _)
Total(entries, field, todo) ==
    IF todo = {} THEN 0
    ELSE LET c == CHOOSE x \in todo : TRUE
         IN  entries[c][field] + Total(entries, field, todo \ {c})

\* get_database_stats of efficiency_api.py
get_database_stats(tables) ==
    LET conn == get_db_connection(tables)
        counted == {c \in Categories : ~HasError(StatsEntry(conn, c))}
        stats == [c \in counted |-> StatsEntry(conn, c)] @@ <<>>
        total_models == Total(stats, "total_models", counted)
        total_energy_star == Total(stats, "energy_star_models", counted)
    IN  IF total_models = 0 THEN Response(500, [error |-> "ZeroDivisionError"], 1, 1)
        ELSE Response(200,
                [database_stats |->
                    [total_models |-> total_models,
                     total_energy_star_models |-> total_energy_star,
                     energy_star_percentage |-> Percentage(total_energy_star, total_models),
                     categories |-> Cardinality(counted)],
                 by_category |-> stats], 1, 1)

\* handler of stats.py
stats_handler(tables) ==
    LET conn == get_db_connection(tables)
        stats == [c \in Categories |-> StatsEntry(conn, c)]
        counted == {c \in Categories : ~HasError(stats[c])}
        total_models == Total(stats, "total_models", counted)
        total_energy_star == Total(stats, "energy_star_models", counted)
    IN  Response(200,
            [database_stats |->
                [total_models |-> total_models,
                 total_energy_star_models |-> total_energy_star,
                 energy_star_percentage |->
                    IF total_models > 0 THEN Percentage(total_energy_star, total_models)
                    ELSE Num(0),
                 categories |-> Cardinality(counted)],
             by_category |-> stats], 1, 1)

\* SELECT COUNT(*) as count FROM {category}_scored, 0 when it raises
CountOrZero(tables, category) ==
    IF ScoredTable(category) \in DOMAIN tables
    THEN Len(tables[ScoredTable(category)].rows) ELSE 0

\* the stats of index.py's stats and of export_stats
stats_data(tables) ==
    LET stats == [c \in Categories |-> CountOrZero(tables, c)]
        Counts == [c \in Categories |-> [count |-> stats[c]]]
    IN  [database_stats |->
            [total_models |-> Total(Counts, "count", Categories),
             categories |-> Cardinality({c \in Categories : stats[c] > 0})],
         by_category |-> stats]

\* stats of index.py
index_stats(tables) == Response(200, stats_data(get_db_connection(tables)), 1, 1)

\* tables of compare_appliances and of get_regional_impact, without _scored
LookupOrder == <<Refrigerators, Dishwashers, WaterHeaters, ClothesWashers>>

CompareCols == SearchCols \cup {"annual_energy_kwh", "annual_co2_lbs_us_average"}

\* cursor.fetchone() of SELECT ... FROM table WHERE model_number = ?: the
\* first row, <<>> when there is none
FetchOne(table, model) ==
    LET held == SelectSeq(table.rows, LAMBDA r : r["model_number"] = model)
    IN  IF held = <<>> THEN <<>> ELSE <<Head(held)>>

\* `for table in tables: try: ... except: continue` for one model
RECURSIVE CompareLookup(_, _, _)
CompareLookup(conn, model, todo) ==
    IF todo = <<>> THEN [model_number |-> model, error |-> "Not found"]
    ELSE LET name == ScoredTable(Head(todo))
         IN  IF ~Readable(conn, name, CompareCols)
             THEN CompareLookup(conn, model, Tail(todo))
             ELSE LET result == FetchOne(conn[name], model)
                  IN  IF result = <<>> THEN CompareLookup(conn, model, Tail(todo))
                      ELSE ("category" :> Head(todo)) @@ Selected(result[1], CompareCols)

\* max(valid_results, key=...) and min(...): the first of the largest, the
\* first of the smallest
BestOf(valid) ==
    valid[CHOOSE i \in 1..Len(valid) :
            \A j \in 1..Len(valid) :
                /\ Le(valid[j]["open_efficiency_score"], valid[i]["open_efficiency_score"])
                /\ j < i => Lt(valid[j]["open_efficiency_score"],
                               valid[i]["open_efficiency_score"])]
WorstOf(valid) ==
    valid[CHOOSE i \in 1..Len(valid) :
            \A j \in 1..Len(valid) :
                /\ Le(valid[i]["open_efficiency_score"], valid[j]["open_efficiency_score"])
                /\ j < i => Lt(valid[i]["open_efficiency_score"],
                               valid[j]["open_efficiency_score"])]

\* compare_appliances of efficiency_api.py
compare_appliances(tables, models) ==
    LET conn == get_db_connection(tables)
        listed == [i \in 1..Len(models) |-> CompareLookup(conn, models[i], LookupOrder)]
                        \o <<>>
        valid_results == SelectSeq(listed, LAMBDA r : ~HasError(r))
        best_model == BestOf(valid_results)
        worst_model == WorstOf(valid_results)
    IN  IF Len(models) < 2
        THEN Response(400, [error |-> "At least 2 models required for comparison"], 0, 0)
        ELSE IF Len(models) > 5
        THEN Response(400, [error |-> "Maximum 5 models for comparison"], 0, 0)
        ELSE IF Len(valid_results) < 2
        THEN Response(200, [comparison |-> listed, insights |-> <<>>], 1, 1)
        ELSE IF \E i \in 1..Len(valid_results) :
                    IsNull(valid_results[i]["open_efficiency_score"])
        THEN Response(500, [error |-> "TypeError"], 1, 1)
        ELSE IF \/ IsNull(worst_model["annual_cost_us_average"])
                \/ IsNull(best_model["annual_cost_us_average"])
        THEN Response(500, [error |-> "TypeError"], 1, 1)
        ELSE Response(200,
                [comparison |-> listed,
                 insights |->
                    [best_performer |-> best_model["model_number"],
                     potential_savings |->
                        Round(Sub(worst_model["annual_cost_us_average"],
                                  best_model["annual_cost_us_average"]), 0)]], 1, 1)

RegionalCostCols == {AnnualCostCol(r) : r \in Regions}
RegionalImpactCols ==
    {"manufacturer", "model_number"} \cup RegionalCostCols
        \cup {AnnualCo2Col(r) : r \in Regions}

\* max(regions.keys(), key=lambda x: regions[x]['annual_cost']) and the min:
\* the regions in the order of the dict, the first of the largest and of the
\* smallest
RegionOrder == <<"us_average", "california", "texas", "new_york", "florida">>
CostliestRegion(held) ==
    RegionOrder[CHOOSE i \in 1..5 :
        \A j \in 1..5 :
            /\ Le(held[AnnualCostCol(RegionOrder[j])], held[AnnualCostCol(RegionOrder[i])])
            /\ j < i => Lt(held[AnnualCostCol(RegionOrder[j])],
                           held[AnnualCostCol(RegionOrder[i])])]
CheapestRegion(held) ==
    RegionOrder[CHOOSE i \in 1..5 :
        \A j \in 1..5 :
            /\ Le(held[AnnualCostCol(RegionOrder[i])], held[AnnualCostCol(RegionOrder[j])])
            /\ j < i => Lt(held[AnnualCostCol(RegionOrder[i])],
                           held[AnnualCostCol(RegionOrder[j])])]

\* get_regional_impact of efficiency_api.py, from the table at the head of
\* todo on.  A table that is not readable raises and the loop continues.  When
\* the row is found the connection is closed before the insights are computed;
\* max() over costs that hold None then raises TypeError inside the try, the
\* loop continues on the closed connection, every further execute raises, and
\* the 404 after the loop is returned.
RECURSIVE RegionalLookup(_, _, _)
RegionalLookup(conn, model_number, todo) ==
    IF todo = <<>> THEN Response(404, [error |-> "Model not found"], 1, 1)
    ELSE LET name == ScoredTable(Head(todo))
         IN  IF ~Readable(conn, name, RegionalImpactCols)
             THEN RegionalLookup(conn, model_number, Tail(todo))
             ELSE LET result == FetchOne(conn[name], model_number)
                  IN  IF result = <<>> THEN RegionalLookup(conn, model_number, Tail(todo))
                      ELSE LET held == Selected(result[1], RegionalImpactCols)
                           IN  IF \E c \in RegionalCostCols : IsNull(held[c])
                               THEN Response(404, [error |-> "Model not found"], 1, 1)
                               ELSE Response(200,
                                        [appliance |-> [manufacturer |-> held["manufacturer"],
                                                        model |-> held["model_number"]],
                                         regional_impact |->
                                            [c \in RegionalImpactCols
                                                    \ {"manufacturer", "model_number"} |->
                                                held[c]],
                                         insights |->
                                            [highest_cost_region |-> CostliestRegion(held),
                                             lowest_cost_region |-> CheapestRegion(held)]],
                                        1, 1)

get_regional_impact(tables, model_number) ==
    RegionalLookup(get_db_connection(tables), model_number, LookupOrder)

\* output_dir / f"{category}.json" and output_dir / "stats.json"
ApiDataFile(category) ==
    CASE category = Refrigerators -> "api/data/refrigerators.json"
      [] category = Dishwashers -> "api/data/dishwashers.json"
      [] category = WaterHeaters -> "api/data/water_heaters.json"
      [] category = ClothesWashers -> "api/data/clothes_washers.json"
StatsFile == "api/data/stats.json"

\* export_category of export_static_json.py: the files after the call; the
\* exception of a table that is not there is printed and no file is written
export_category(tables, written, category) ==
    LET name == ScoredTable(category)
    IN  IF ~Readable(tables, name, {"open_efficiency_score"}) THEN written
        ELSE (ApiDataFile(category) :> OrderByScoreDesc(tables[name].rows)) @@ written

\* export_stats of export_static_json.py: the files after the call
export_stats(tables, written) == (StatsFile :> stats_data(tables)) @@ written

\* conn.close() had a handler executed DELETE FROM <table> and committed
CloseAfterDelete(conn) == [n \in DOMAIN conn |-> [conn[n] EXCEPT !.rows = <<>>]]

\* conn.close(): every statement the handlers and the export functions execute
\* is a SELECT or a PRAGMA table_info and nothing is committed, so the file
\* holds the tables the connection was opened on
Close(conn) == conn

\* ------------------------------------------------------------ the requests
ApiIdle == [phase |-> "idle"]

\* the model numbers asked for: the first of the refrigerators and of the
\* dishwashers process_category writes, and one no table holds
KnownModels == {<<ModelPrefix(Refrigerators), 0>>, <<ModelPrefix(Dishwashers), 0>>}
AskedModels == KnownModels \cup {<<"Model-X", 0>>}

\* the limits asked for: none, negative, zero, below and above the row count
Limits == {NoArg, <<-1>>, <<0>>, <<1>>, <<MaxRows + SampleCount>>}

DefaultSearch ==
    [category |-> Refrigerators, manufacturer |-> "", model |-> NoText,
     min_score |-> NoArg, max_score |-> NoArg, energy_star |-> "", limit |-> NoArg]

\* a search request: the default one with at most two arguments changed
SearchArgs ==
    [category : {Refrigerators, Dishwashers, ""},
     manufacturer : {"", "Whirlpool", "o"},
     model : {NoText, <<"Model-">>, <<ModelPrefix(Refrigerators), 0>>},
     min_score : {NoArg, Num(50)},
     max_score : {NoArg, Num(70)},
     energy_star : {"", "true", "false"},
     limit : Limits]
SearchRequests ==
    {r \in SearchArgs :
        Cardinality({f \in DOMAIN r : r[f] # DefaultSearch[f]}) <= 2}

\* the model lists of a compare request: up to MaxCompare models, and lists of
\* five and of six
RECURSIVE Lists(_, _)
Lists(S, n) ==
    IF n = 0 THEN {<<>>}
    ELSE LET shorter == Lists(S, n - 1)
         IN  shorter \cup {Append(l, m) : l \in {x \in shorter : Len(x) = n - 1}, m \in S}
CompareRequests ==
    Lists(AskedModels, MaxCompare)
        \cup {[i \in 1..n |-> CHOOSE m \in KnownModels : TRUE] : n \in {5, 6}}

\* ------------------------------------------------------------ the calls
\* a handler returned its response; the connection it opened was closed
Serve(handler, request, response) ==
    /\ api.phase = "idle"
    /\ api' = [phase |-> "responded", handler |-> handler, request |-> request,
               status |-> response.status, body |-> response.body,
               opened |-> response.opened, closed |-> response.closed]
    /\ db' = [db EXCEPT ![IndexDb] = IF response.opened = 0 THEN @
                                     ELSE Close(get_db_connection(@))]
    /\ UNCHANGED <<sc, band, pipe, source, absent, faults, pc, queue, data, results,
                   files, runs, log, hist, before>>

ApiSearch ==
    \E request \in SearchRequests :
        Serve("efficiency_api.search_appliances", request,
              search_appliances(db[IndexDb], request))
SearchHandler ==
    \E request \in SearchRequests :
        Serve("search.handler", request, search_handler(db[IndexDb], request))
IndexSearch ==
    \E request \in SearchRequests :
        Serve("index.search", request, index_search(db[IndexDb], request))
ApiCategories ==
    Serve("efficiency_api.get_categories", NoArg, get_categories(db[IndexDb]))
CategoriesHandler ==
    Serve("categories.handler", NoArg, categories_handler(db[IndexDb]))
ApiTopPerformers ==
    \E category \in {Refrigerators, Dishwashers}, limit \in Limits :
        Serve("efficiency_api.get_top_performers",
              [category |-> category, limit |-> limit],
              get_top_performers(db[IndexDb], category, limit))
ApiCompare ==
    \E models \in CompareRequests :
        Serve("efficiency_api.compare_appliances", models,
              compare_appliances(db[IndexDb], models))
ApiRegionalImpact ==
    \E model_number \in AskedModels :
        Serve("efficiency_api.get_regional_impact", model_number,
              get_regional_impact(db[IndexDb], model_number))
ApiStats ==
    Serve("efficiency_api.get_database_stats", NoArg, get_database_stats(db[IndexDb]))
StatsHandler ==
    Serve("stats.handler", NoArg, stats_handler(db[IndexDb]))
IndexStats ==
    Serve("index.stats", NoArg, index_stats(db[IndexDb]))

\* the response was sent; the next call can be served
ApiReturn ==
    /\ api.phase = "responded"
    /\ api' = ApiIdle
    /\ UNCHANGED <<sc, band, pipe, source, absent, faults, pc, queue, data, results, db,
                   files, runs, log, hist, before>>

ExportCategory ==
    /\ api.phase = "idle"
    /\ \E category \in Categories :
        /\ files' = export_category(get_db_connection(db[IndexDb]), files, category)
        /\ db' = [db EXCEPT ![IndexDb] = Close(get_db_connection(@))]
    /\ UNCHANGED <<sc, band, api, pipe, source, absent, faults, pc, queue, data, results,
                   runs, log, hist, before>>

ExportStats ==
    /\ api.phase = "idle"
    /\ files' = export_stats(get_db_connection(db[IndexDb]), files)
    /\ db' = [db EXCEPT ![IndexDb] = Close(get_db_connection(@))]
    /\ UNCHANGED <<sc, band, api, pipe, source, absent, faults, pc, queue, data, results,
                   runs, log, hist, before>>

InitApi ==
    /\ api = ApiIdle
    /\ \E tables \in ApiDatabases : db = [NoTables EXCEPT ![IndexDb] = tables]
    /\ sc = ScOff /\ band = BandOff
    /\ pipe = "none" /\ source = <<>> /\ pc = "off" /\ queue = <<>>
    /\ absent = {} /\ faults = {}
    /\ data = EmptyFrame /\ results = <<>> /\ runs = 0
    /\ files = <<>>
    /\ log = <<>> /\ hist = <<>> /\ before = [db |-> NoTables, files |-> <<>>]

NextApi ==
    \/ ApiSearch \/ SearchHandler \/ IndexSearch
    \/ ApiCategories \/ CategoriesHandler \/ ApiTopPerformers
    \/ ApiCompare \/ ApiRegionalImpact
    \/ ApiStats \/ StatsHandler \/ IndexStats
    \/ ApiReturn \/ ExportCategory \/ ExportStats

SpecApi == InitApi /\ [][NextApi]_vars

\* ------------------------------- properties: the absolute-threshold scores
BandScored == band.phase = "scored" /\ band.frame.raised = "none"
BandRows == band.frame.rows
MinOf(a, b) == IF Lt(b, a) THEN b ELSE a

\* C24: a water heater of uniform energy factor u >= 0.90 gets the absolute score
\* min(100, 95 + (u - 0.90) x 100) and the rating A+; u = 0.92 gets 97 and A+.
C24_WaterHeaterTopBand ==
    (BandScored /\ band.category = WaterHeaters) =>
        \A i \in 1..Len(BandRows) :
            LET u == BandRows[i]["true_efficiency"]
            IN  /\ Ge(u, Rat(90, 100)) =>
                    /\ BandRows[i]["open_efficiency_score"] =
                            MinOf(Num(100), Add(Num(95), Mul(Sub(u, Rat(90, 100)), Num(100))))
                    /\ BandRows[i]["efficiency_rating"] = "A+"
                /\ u = Rat(92, 100) =>
                    /\ BandRows[i]["open_efficiency_score"] = Num(97)
                    /\ BandRows[i]["efficiency_rating"] = "A+"

\* a water heater of 0.92 was scored 97, next to one the clip holds at 100
C24_Witness ==
    /\ BandScored /\ band.category = WaterHeaters
    /\ BandRows[1]["true_efficiency"] = Rat(92, 100)
    /\ BandRows[1]["open_efficiency_score"] = Num(97)
    /\ Lt(Rat(95, 100), BandRows[2]["true_efficiency"])
    /\ BandRows[2]["open_efficiency_score"] = Num(100)

\* the efficiencies at which the D, C, B, A and A+ ranges of a category begin;
\* range k begins with the score 45 + 10 k
BandAnchors(category) ==
    CASE category = Refrigerators ->
            <<Rat(50, 1000), Rat(60, 1000), Rat(70, 1000), Rat(80, 1000), Rat(90, 1000)>>
      [] category = Dishwashers -> <<Num(4), Num(6), Num(8), Num(10), Num(12)>>
      [] category = WaterHeaters ->
            <<Rat(50, 100), Rat(60, 100), Rat(70, 100), Rat(80, 100), Rat(90, 100)>>
      [] category = ClothesWashers -> <<Num(6), Num(8), Num(10), Num(12), Num(14)>>

\* C25: the clipped absolute score of every category is non-decreasing in the
\* true efficiency, and an efficiency below the beginning of a range scores
\* below the score that range begins with.
C25_AbsoluteScoreMonotone ==
    BandScored =>
        /\ \A i, j \in 1..Len(BandRows) :
            Lt(BandRows[i]["true_efficiency"], BandRows[j]["true_efficiency"]) =>
                Le(BandRows[i]["open_efficiency_score"], BandRows[j]["open_efficiency_score"])
        /\ \A i \in 1..Len(BandRows), k \in 1..5 :
            Lt(BandRows[i]["true_efficiency"], BandAnchors(band.category)[k]) =>
                Lt(BandRows[i]["open_efficiency_score"], Num(45 + 10 * k))

\* two efficiencies either side of the beginning of a range were scored, the
\* lower one inside the range below
C25_Witness ==
    /\ BandScored
    /\ \E k \in 2..5 :
        /\ Lt(BandAnchors(band.category)[k - 1], BandRows[1]["true_efficiency"])
        /\ Lt(BandRows[1]["true_efficiency"], BandAnchors(band.category)[k])
        /\ Ge(BandRows[2]["true_efficiency"], BandAnchors(band.category)[k])
        /\ Lt(BandRows[1]["open_efficiency_score"], BandRows[2]["open_efficiency_score"])

\* ------------------------------------ properties: the runs and the query layer
\* the table of a category the query handlers read: <category>_scored of
\* open_efficiency_index.db
Queried(category) ==
    IF ScoredTable(category) \in DOMAIN db[IndexDb]
    THEN {db[IndexDb][ScoredTable(category)].rows} ELSE {}

\* C23: once run_full_pipeline of either pipeline has returned, the table the
\* query handlers read for a category of the results holds the rows of that run.
C23_PersistedWhereQueried ==
    (pc = "idle" /\ runs > 0) =>
        \A c \in Categories :
            InResults(c) => Queried(c) = {LatestFrame(c).rows}

\* the table of the category was written in the current run: save_to_database
\* returned, or raised after its first to_sql, at the append to appliances_real
WrittenNow(category) ==
    \E k \in 1..Len(hist) :
        \/ hist[k] = <<category, "save", "ok">>
        \/ pipe = "real" /\ hist[k] = <<category, "unified", "failed">>

\* C26: once run_full_pipeline has returned, a category is a key of the results
\* exactly when its table was written in this run.
C26_ResultsAreTheWrittenTables ==
    (pc = "idle" /\ runs > 0) =>
        \A c \in Categories : InResults(c) <=> WrittenNow(c)

\* C30: every row the real pipeline persists for a category has the twenty
\* regional fields, each holding a number.
C30_RegionalFieldsDefined ==
    pipe = "real" =>
        \A c \in Persisted :
            \A i \in 1..Len(TableRows(c)) :
                \A col \in RegionalCols :
                    Defined(Tables[TableOf(c)], TableRows(c)[i], col)

\* ------------------------------------------- properties: the query layer
Responded(handler) == api.phase = "responded" /\ api.handler = handler

SearchHandlers == {"efficiency_api.search_appliances", "search.handler", "index.search"}
Searched == api.phase = "responded" /\ api.handler \in SearchHandlers /\ api.status = 200

\* the rows of the table a search was made on
SearchedRows == db[IndexDb][ScoredTable(api.request.category)].rows

\* the predicates the request supplies, as the specification states them
Supplied(row, request) ==
    /\ request.manufacturer # "" => ManufacturerLike(row["manufacturer"], request.manufacturer)
    /\ request.model # NoText => ModelLike(row["model_number"], request.model)
    /\ Le(Arg(request.min_score, Num(0)), row["open_efficiency_score"])
    /\ Le(row["open_efficiency_score"], Arg(request.max_score, Num(100)))
    /\ request.energy_star = "true" => row["energy_star_certified"] = TRUE

OnlyMatches ==
    \A i \in 1..Len(api.body.appliances) : Supplied(api.body.appliances[i], api.request)
Descending ==
    \A i \in 1..Len(api.body.appliances) - 1 :
        Le(api.body.appliances[i + 1]["open_efficiency_score"],
           api.body.appliances[i]["open_efficiency_score"])
WithinLimit ==
    api.request.limit # NoArg => Len(api.body.appliances) <= api.request.limit[1]
TopMatches ==
    \A i \in 1..Len(SearchedRows) :
        LET row == SearchedRows[i]
            returned == \E k \in 1..Len(api.body.appliances) :
                            api.body.appliances[k]["model_number"] = row["model_number"]
        IN  Supplied(row, api.request) /\ ~returned =>
                \A k \in 1..Len(api.body.appliances) :
                    Le(row["open_efficiency_score"],
                       api.body.appliances[k]["open_efficiency_score"])

\* C22: a successful search returns only rows that satisfy every supplied
\* predicate, in non-increasing order of open_efficiency_score, at most `limit`
\* of them, and no matching row it leaves out scores higher than a row it
\* returns, for every integer limit, 0 and the negative ones included
C22_SearchReturnsTopMatches ==
    Searched => OnlyMatches /\ Descending /\ WithinLimit /\ TopMatches

\* the <category>_scored table is there and holds a row with the model number
Holds(category, model) ==
    /\ ScoredTable(category) \in DOMAIN db[IndexDb]
    /\ FetchOne(db[IndexDb][ScoredTable(category)], model) # <<>>

\* the first table, in the fixed order, that holds the model number: its place
\* in the order, 0 when no table holds it
FirstHolding(model) ==
    IF \A k \in 1..Len(LookupOrder) : ~Holds(LookupOrder[k], model) THEN 0
    ELSE CHOOSE k \in 1..Len(LookupOrder) :
            /\ Holds(LookupOrder[k], model)
            /\ \A j \in 1..(k - 1) : ~Holds(LookupOrder[j], model)

\* the entry is the row of the first table that holds the model, or the
\* 'Not found' entry when none does
EntryOf(entry, model) ==
    LET k == FirstHolding(model)
    IN  IF k = 0 THEN entry = [model_number |-> model, error |-> "Not found"]
        ELSE LET row == FetchOne(db[IndexDb][ScoredTable(LookupOrder[k])], model)[1]
             IN  /\ "error" \notin DOMAIN entry
                 /\ entry["category"] = LookupOrder[k]
                 /\ \A c \in DOMAIN entry \ {"category"} : entry[c] = row[c]

FoundCount(models) == Cardinality({i \in 1..Len(models) : FirstHolding(models[i]) # 0})

\* C27: compare_appliances rejects fewer than 2 and more than 5 models with
\* 400 before it opens a connection; otherwise it answers one entry per model,
\* in request order, each the row of the first table of the fixed order that
\* holds the model or 'Not found' when none does, and insights that are
\* non-empty exactly when at least 2 models were found
C27_CompareAppliances ==
    Responded("efficiency_api.compare_appliances") =>
        IF Len(api.request) < 2 \/ Len(api.request) > 5
        THEN api.status = 400 /\ api.opened = 0
        ELSE /\ api.status = 200
             /\ Len(api.body.comparison) = Len(api.request)
             /\ \A i \in 1..Len(api.request) :
                    EntryOf(api.body.comparison[i], api.request[i])
             /\ api.body.insights # <<>> <=> FoundCount(api.request) >= 2

\* the regional values of the response are those of the row
RegionalDataOf(row) ==
    /\ api.body.appliance.model = row["model_number"]
    /\ api.body.appliance.manufacturer = row["manufacturer"]
    /\ \A c \in DOMAIN api.body.regional_impact :
            c \in DOMAIN row /\ api.body.regional_impact[c] = row[c]

\* C28: get_regional_impact answers 404 'Model not found' exactly when no
\* <category>_scored table holds a row with the model number; when a table
\* holds it, whatever its regional values, NULL included, the answer is the
\* regional data of the row of the first such table; and the connection is
\* closed on every path
C28_RegionalImpactFound ==
    Responded("efficiency_api.get_regional_impact") =>
        LET k == FirstHolding(api.request)
        IN  /\ api.status = 404 <=> k = 0
            /\ k # 0 =>
                /\ api.status = 200
                /\ RegionalDataOf(FetchOne(db[IndexDb][ScoredTable(LookupOrder[k])],
                                           api.request)[1])
            /\ api.closed = api.opened

StatsHandlers == {"efficiency_api.get_database_stats", "stats.handler"}

RECURSIVE RowCount(_)
RowCount(todo) ==
    IF todo = {} THEN 0
    ELSE LET n == CHOOSE x \in todo : TRUE
         IN  Len(db[IndexDb][n].rows) + RowCount(todo \ {n})

\* C29: on every database, with no <category>_scored table or only empty ones
\* too, get_database_stats and stats.handler answer normally, with total_models
\* the sum of the row counts of the tables that are there and
\* energy_star_percentage 0 when total_models is 0, and both answer the same
\* database_stats
C29_StatsNeverFail ==
    api.phase = "responded" /\ api.handler \in StatsHandlers =>
        /\ api.status = 200
        /\ api.body.database_stats.total_models = RowCount(DOMAIN db[IndexDb])
        /\ api.body.database_stats.total_models = 0 =>
                api.body.database_stats.energy_star_percentage = Num(0)
        /\ get_database_stats(db[IndexDb]).status = 200
        /\ api.body.database_stats = get_database_stats(db[IndexDb]).body.database_stats
        /\ api.body.database_stats = stats_handler(db[IndexDb]).body.database_stats
====
